---- MODULE Spec2Model ----
(***************************************************************************)
(* Verification model of the Integration-Agent post-processing layer:      *)
(*   - IntegrationAgent._parse_response / _extract_field (src/src/agent.py)*)
(*   - IntegrationAgent._extract_trace                   (src/src/agent.py)*)
(*   - EvalHarness (tests/eval_harness.py): validate_liquid_template,      *)
(*     run_scenario, run.                                                  *)
(* Text is modelled character by character: a Python str is a sequence of  *)
(* one-character strings.                                                  *)
(***************************************************************************)
EXTENDS Integers, Sequences, FiniteSets, TLC

VARIABLES
    \* ---- _parse_response ----
    output,             \* the raw text handed to _parse_response
    response,           \* what the call produced (a response or an escaped exception)
    ppc,                \* "start" before the call, "done" after it
    json_str,           \* local `json_str` of _parse_response: the candidate
    \* ---- _extract_trace ----
    messages,           \* the event list
    midx,               \* index of the next message of the for loop
    steps,              \* local list `steps`
    tool_calls_list,    \* local list `tool_calls_list`
    step_number,        \* local counter `step_number`
    pending_tool_calls, \* local dict `pending_tool_calls`: tool id -> step index
    tpc,                \* "loop", "returned" or "raised"
    \* ---- EvalHarness ----
    given_scenarios,    \* the `scenarios` argument of EvalHarness.__init__
    scenarios,          \* self.scenarios
    scenario_results,   \* local list `scenario_results` of run
    agent_fn,           \* the agent function: the outcome of its k-th call
    metrics,            \* results.metrics
    epc,                \* "running", "returned" or "raised"
    agent_calls,        \* the (request, context) of every call of the agent function
    eval_results,       \* local `results` of run: total_scenarios and details
    \* ---- EvalHarness.compare_results ----
    baseline_dict,      \* the argument `baseline`
    current_dict,       \* the argument `current`
    comparison,         \* the returned dict
    cpc,                \* "start" before the call, "done" after it
    \* ---- main: evaluation runs and their result files ----
    results_dir,        \* the files of RESULTS_DIR: filename -> what was written
    save_log,           \* every call of save_results: its filename and its aggregate
    clock,              \* datetime.now(), in ticks
    runs_done,          \* evaluation runs carried out so far
    \* ---- IntegrationAgent.run ----
    verbose_arg,        \* the argument `verbose` of IntegrationAgent.__init__
    AGENT_VERBOSE,      \* config.AGENT_VERBOSE, read from the environment
    self_verbose,       \* self.verbose
    invoke_outcome,     \* what self.agent.invoke does: return a result or raise
    final_messages,     \* local `final_messages`
    trace,              \* local `trace`
    run_response,       \* the AgentResponse run returns
    rpc,                \* position in run
    \* ---- retrieve_api_documentation ----
    action_id_arg,      \* the argument `action_id`
    query_arg,          \* the argument `query`
    vectorstore,        \* the indexed chunks, best match first
    tool_result,        \* the dict whose json.dumps the tool returns
    dpc,                \* "start" before the call, "done" after it
    \* ---- get_available_actions, validate_action_id ----
    actions_query,      \* the argument `query` of get_available_actions
    actions_result,     \* the dict whose json.dumps get_available_actions returns
    gpc,                \* "start" before that call, "done" after it
    checked_id,         \* the argument `action_id` of validate_action_id
    id_valid,           \* what validate_action_id returned
    vpc                 \* "start" before that call, "done" after it

pvars == <<output, response, ppc, json_str>>
tvars == <<messages, midx, steps, tool_calls_list, step_number, pending_tool_calls, tpc>>
evars == <<given_scenarios, scenarios, agent_fn, scenario_results, metrics, epc, agent_calls,
          eval_results>>
cvars == <<baseline_dict, current_dict, comparison, cpc>>
svars == <<results_dir, save_log, clock, runs_done>>
rvars == <<verbose_arg, AGENT_VERBOSE, self_verbose, invoke_outcome, final_messages, trace,
          run_response, rpc>>
dvars == <<action_id_arg, query_arg, vectorstore, tool_result, dpc>>
avars == <<actions_query, actions_result, gpc, checked_id, id_valid, vpc>>
xvars == <<cvars, svars, rvars, dvars, avars>>
vars == <<pvars, tvars, evars, xvars>>

(***************************************************************************)
(* Characters and string helpers                                           *)
(***************************************************************************)
QUOTE == "\""
BS == "\\"
NL == "\n"
SP == " "
\* the backtick character (kept symbolic)
BT == "<BT>"

\* characters Python's str.strip(), regex \s and the JSON decoder treat as whitespace
Whitespace == {SP, NL}

SelectedActionKey == <<"s", "e", "l", "e", "c", "t", "e", "d", "_", "a", "c", "t", "i", "o", "n">>
ReasoningKey == <<"r", "e", "a", "s", "o", "n", "i", "n", "g">>
ProposedConfigKey == <<"p", "r", "o", "p", "o", "s", "e", "d", "_", "c", "o", "n", "f", "i", "g">>
JsonFence == <<BT, BT, BT, "j", "s", "o", "n">>
Fence == <<BT, BT, BT>>
Unknown == <<"u", "n", "k", "n", "o", "w", "n">>
NoReasoning == <<"N", "o", " ", "r", "e", "a", "s", "o", "n", "i", "n", "g", " ", "p", "r", "o", "v", "i", "d", "e", "d">>
EmptyConfig == <<"{", "}">>
ParseError == <<"p", "a", "r", "s", "e", "_", "e", "r", "r", "o", "r">>
ParseFailedPrefix == <<"P", "a", "r", "s", "e", " ", "f", "a", "i", "l", "e", "d", ":", " ">>
FailedToParsePrefix == <<"F", "a", "i", "l", "e", "d", " ", "t", "o", " ", "p", "a", "r", "s", "e", " ", "a", "g", "e", "n", "t", " ", "o", "u", "t", "p", "u", "t", ":", " ">>
RawOutputLabel == <<"\n", "R", "a", "w", " ", "o", "u", "t", "p", "u", "t", ":", " ">>
FalseLit == <<"f", "a", "l", "s", "e">>

\* str(e) of a json.JSONDecodeError: the decoder's message, kept as one opaque symbol
JSONDecodeErrorText == <<"<JSONDecodeError message>">>

\* number of raw characters quoted in the full-failure reasoning (output[:500])
RawOutputLimit == 500

\* s[:n]
Take(s, n) == SubSeq(s, 1, IF n < Len(s) THEN n ELSE Len(s))

\* s[i:] for a 1-based i
From(s, i) == SubSeq(s, i, Len(s))

\* n copies of c
Rep(n, c) == [i \in 1..n |-> c]

\* does p occur in s at 1-based position i
OccursAt(s, p, i) == i >= 1 /\ i + Len(p) - 1 <= Len(s) /\ SubSeq(s, i, i + Len(p) - 1) = p

\* str.find(p, start): 1-based position of the first occurrence of p at or
\* after 1-based position `start`, 0 when there is none (Python's -1)
Find(s, p, start) ==
    LET hits == {i \in start..(Len(s) - Len(p) + 1) : OccursAt(s, p, i)}
    IN IF hits = {} THEN 0 ELSE CHOOSE i \in hits : \A j \in hits : i <= j

\* p in s
Contains(s, p) == Find(s, p, 1) # 0

\* str.strip()
Strip(s) ==
    LET keep == {i \in 1..Len(s) : s[i] \notin Whitespace}
    IN IF keep = {} THEN <<>>
       ELSE SubSeq(s, CHOOSE i \in keep : \A j \in keep : i <= j,
                      CHOOSE i \in keep : \A j \in keep : i >= j)

(***************************************************************************)
(* json.loads, for the characters of the model's alphabet.  A value is a   *)
(* record [t, v]: t is "str" (v the decoded characters), "num", "bool",    *)
(* "list" (v the items) or "obj" (v the <<key, value>> pairs in order).    *)
(***************************************************************************)
JFail == [ok |-> FALSE, end |-> 0, val |-> [t |-> "none", v |-> <<>>]]

JOk(e, val) == [ok |-> TRUE, end |-> e, val |-> val]

\* the escapes of the JSON string grammar that the alphabet can spell
JsonEscapes == {QUOTE, BS, "n", "r", "t", "f"}

JsonUnescape(c) ==
    CASE c = QUOTE -> QUOTE
      [] c = BS -> BS
      [] c = "n" -> NL
      [] c = "r" -> "<CR>"
      [] c = "t" -> "<TAB>"
      [] c = "f" -> "<FF>"

\* WHITESPACE.match(s, i).end()
RECURSIVE JSkipWs(_, _)
JSkipWs(s, i) == IF i <= Len(s) /\ s[i] \in Whitespace THEN JSkipWs(s, i + 1) ELSE i

\* scanstring: i is the position after the opening quote
RECURSIVE JScanString(_, _, _)
JScanString(s, i, acc) ==
    IF i > Len(s) THEN JFail
    ELSE IF s[i] = QUOTE THEN JOk(i + 1, [t |-> "str", v |-> acc])
    ELSE IF s[i] = BS THEN
        IF i + 1 <= Len(s) /\ s[i + 1] \in JsonEscapes
        THEN JScanString(s, i + 2, Append(acc, JsonUnescape(s[i + 1])))
        ELSE JFail
    ELSE IF s[i] = NL THEN JFail
    ELSE JScanString(s, i + 1, Append(acc, s[i]))

\* end of the run of digits starting at i
RECURSIVE JDigitsEnd(_, _)
JDigitsEnd(s, i) == IF i <= Len(s) /\ s[i] = "1" THEN JDigitsEnd(s, i + 1) ELSE i

\* NUMBER_RE: integer part, then an optional exponent
JScanNumber(s, i) ==
    LET e1 == JDigitsEnd(s, i)
        e2 == IF e1 <= Len(s) /\ s[e1] = "e" /\ JDigitsEnd(s, e1 + 1) > e1 + 1
              THEN JDigitsEnd(s, e1 + 1) ELSE e1
    IN JOk(e2, [t |-> "num", v |-> SubSeq(s, i, e2 - 1)])

RECURSIVE JScanOnce(_, _), JObjectLoop(_, _, _), JArrayLoop(_, _, _)
\* scan_once: the value starting at position i
JScanOnce(s, i) ==
    IF i > Len(s) THEN JFail
    ELSE IF s[i] = QUOTE THEN JScanString(s, i + 1, <<>>)
    ELSE IF s[i] = "{" THEN
        LET j == JSkipWs(s, i + 1)
        IN IF j > Len(s) THEN JFail
           ELSE IF s[j] = "}" THEN JOk(j + 1, [t |-> "obj", v |-> <<>>])
           ELSE IF s[j] = QUOTE THEN JObjectLoop(s, j + 1, <<>>)
           ELSE JFail
    ELSE IF s[i] = "[" THEN
        LET j == JSkipWs(s, i + 1)
        IN IF j > Len(s) THEN JFail
           ELSE IF s[j] = "]" THEN JOk(j + 1, [t |-> "list", v |-> <<>>])
           ELSE JArrayLoop(s, j, <<>>)
    ELSE IF OccursAt(s, FalseLit, i) THEN JOk(i + Len(FalseLit), [t |-> "bool", v |-> <<>>])
    ELSE IF s[i] = "1" THEN JScanNumber(s, i)
    ELSE JFail

\* JSONObject: i is the position after the opening quote of the next key
JObjectLoop(s, i, acc) ==
    LET k == JScanString(s, i, <<>>)
    IN IF ~k.ok THEN JFail
       ELSE LET c == JSkipWs(s, k.end)
            IN IF c > Len(s) \/ s[c] # ":" THEN JFail
               ELSE LET val == JScanOnce(s, JSkipWs(s, c + 1))
                    IN IF ~val.ok THEN JFail
                       ELSE LET d == JSkipWs(s, val.end)
                                acc2 == Append(acc, <<k.val.v, val.val>>)
                            IN IF d > Len(s) THEN JFail
                               ELSE IF s[d] = "}" THEN JOk(d + 1, [t |-> "obj", v |-> acc2])
                               ELSE IF s[d] # "," THEN JFail
                               ELSE LET q == JSkipWs(s, d + 1)
                                    IN IF q > Len(s) \/ s[q] # QUOTE THEN JFail
                                       ELSE JObjectLoop(s, q + 1, acc2)

\* JSONArray: i is the position of the next item
JArrayLoop(s, i, acc) ==
    LET val == JScanOnce(s, i)
    IN IF ~val.ok THEN JFail
       ELSE LET d == JSkipWs(s, val.end)
                acc2 == Append(acc, val.val)
            IN IF d > Len(s) THEN JFail
               ELSE IF s[d] = "]" THEN JOk(d + 1, [t |-> "list", v |-> acc2])
               ELSE IF s[d] # "," THEN JFail
               ELSE JArrayLoop(s, JSkipWs(s, d + 1), acc2)

\* json.loads(s): ok = FALSE stands for json.JSONDecodeError
JsonLoads(s) ==
    LET r == JScanOnce(s, JSkipWs(s, 1))
    IN IF r.ok /\ JSkipWs(s, r.end) = Len(s) + 1 THEN r ELSE JFail

\* dict.get(key, default) on a parsed object: the last pair with that key wins
DictGet(pairs, key, default) ==
    LET hits == {i \in 1..Len(pairs) : pairs[i][1] = key}
    IN IF hits = {} THEN default
       ELSE pairs[CHOOSE i \in hits : \A j \in hits : i >= j][2]

(***************************************************************************)
(* IntegrationAgent._extract_field and _parse_response                     *)
(***************************************************************************)
\* str.replace(old, new): left to right, non-overlapping
RECURSIVE Replace(_, _, _)
Replace(s, old, new) ==
    IF Len(s) = 0 THEN <<>>
    ELSE IF OccursAt(s, old, 1) THEN new \o Replace(From(s, Len(old) + 1), old, new)
    ELSE <<s[1]>> \o Replace(From(s, 2), old, new)

\* the regex tail  (?:\\.[^"]*)*"  tried at position q, and the class [^"]*
\* tried with k characters, giving characters back one at a time: the
\* position of the closing quote of the first match in backtracking order,
\* 0 when there is none
RECURSIVE ReEscapedTail(_, _), ReNonQuotes(_, _, _)
ReEscapedTail(t, q) ==
    LET iter == IF q + 1 <= Len(t) /\ t[q] = BS /\ t[q + 1] # NL
                THEN ReNonQuotes(t, q + 2, Len(t) - q - 1)
                ELSE 0
    IN IF iter # 0 THEN iter
       ELSE IF q <= Len(t) /\ t[q] = QUOTE THEN q
       ELSE 0

ReNonQuotes(t, p, k) ==
    IF k < 0 THEN 0
    ELSE IF \E i \in p..(p + k - 1) : t[i] = QUOTE THEN ReNonQuotes(t, p, k - 1)
    ELSE LET r == ReEscapedTail(t, p + k)
         IN IF r # 0 THEN r ELSE ReNonQuotes(t, p, k - 1)

\* the pattern  "field_name"\s*:\s*"([^"]*(?:\\.[^"]*)*)"  anchored at position
\* i: the span [lo, hi] of group 1, ok = FALSE when it does not match there
ReFieldAt(t, field_name, i) ==
    LET lit == <<QUOTE>> \o field_name \o <<QUOTE>>
        c == JSkipWs(t, i + Len(lit))
        q == JSkipWs(t, c + 1)
        close == ReNonQuotes(t, q + 1, Len(t) - q)
    IN IF OccursAt(t, lit, i) /\ c <= Len(t) /\ t[c] = ":" /\ q <= Len(t) /\ t[q] = QUOTE
          /\ close # 0
       THEN [ok |-> TRUE, lo |-> q + 1, hi |-> close - 1]
       ELSE [ok |-> FALSE, lo |-> 0, hi |-> 0]

\* the value None
None == [found |-> FALSE, v |-> <<>>]

Some(v) == [found |-> TRUE, v |-> v]

\* _extract_field(text, field_name): re.search takes the leftmost position
\* where the pattern matches, then the two unescaping replacements
_extract_field(text, field_name) ==
    LET hits == {i \in 1..Len(text) : ReFieldAt(text, field_name, i).ok}
    IN IF hits = {} THEN None
       ELSE LET i == CHOOSE h \in hits : \A j \in hits : h <= j
                m == ReFieldAt(text, field_name, i)
                group1 == SubSeq(text, m.lo, m.hi)
            IN Some(Replace(Replace(group1, <<BS, QUOTE>>, <<QUOTE>>), <<BS, "n">>, <<NL>>))

\* x or default, for an optional string x: None and "" are both falsy
OrElse(x, default) == IF x.found /\ x.v # <<>> THEN x.v ELSE default

\* text between the fence that starts at 1-based position at (of the given
\* length) and the next fence, or the rest of the text; stripped
FencedBlock(text, at, fenceLen) ==
    LET start == at + fenceLen
        end == Find(text, Fence, start)
    IN IF end = 0 THEN Strip(From(text, start)) ELSE Strip(SubSeq(text, start, end - 1))

\* re.search(r'^\s*\{', output, re.MULTILINE).start(): the first line start
\* from which whitespace and then an opening brace follow; 0 when none
LineStartBrace(text) ==
    LET hits == {i \in 1..Len(text) :
                    /\ (i = 1 \/ text[i - 1] = NL)
                    /\ JSkipWs(text, i) <= Len(text)
                    /\ text[JSkipWs(text, i)] = "{"}
    IN IF hits = {} THEN 0 ELSE CHOOSE i \in hits : \A j \in hits : i <= j

\* candidate taken from the first fence of the text, tagged or not
JsonCandidate_first_fence(text) ==
    IF Contains(text, Fence)
    THEN LET at == Find(text, Fence, 1)
         IN FencedBlock(text, at, IF OccursAt(text, JsonFence, at) THEN Len(JsonFence)
                                  ELSE Len(Fence))
    ELSE IF LineStartBrace(text) # 0 THEN Strip(From(text, LineStartBrace(text)))
    ELSE Strip(text)

\* the candidate json_str of _parse_response
JsonCandidate(text) ==
    IF Contains(text, JsonFence) THEN FencedBlock(text, Find(text, JsonFence, 1), Len(JsonFence))
    ELSE IF Contains(text, Fence) THEN FencedBlock(text, Find(text, Fence, 1), Len(Fence))
    ELSE IF LineStartBrace(text) # 0 THEN Strip(From(text, LineStartBrace(text)))
    ELSE Strip(text)

\* an exception that leaves the function
Raised(exc) ==
    [kind |-> "raised", exc |-> exc, selected_action |-> <<>>, reasoning |-> <<>>,
     proposed_config |-> <<>>]

StrVal(s) == [t |-> "str", v |-> s]

\* AgentResponse(selected_action=..., reasoning=..., proposed_config=...):
\* the three fields are declared str, and validation rejects any other value
AgentResponse(selected_action, reasoning, proposed_config) ==
    IF selected_action.t = "str" /\ reasoning.t = "str" /\ proposed_config.t = "str"
    THEN [kind |-> "AgentResponse", exc |-> "", selected_action |-> selected_action.v,
          reasoning |-> reasoning.v, proposed_config |-> proposed_config.v]
    ELSE Raised("ValidationError")

\* the full-failure reasoning with the raw text quoted whole
FullFallbackReasoning_untruncated(text) ==
    FailedToParsePrefix \o JSONDecodeErrorText \o RawOutputLabel \o text

\* the reasoning of the full-failure response
FullFallbackReasoning(text) ==
    FailedToParsePrefix \o JSONDecodeErrorText \o RawOutputLabel \o Take(text, RawOutputLimit)

\* except branch that keeps whatever field was recovered
ParseFallback_any_field(text) ==
    LET selected_action == OrElse(_extract_field(text, SelectedActionKey), ParseError)
        reasoning == OrElse(_extract_field(text, ReasoningKey),
                            ParseFailedPrefix \o JSONDecodeErrorText)
        proposed_config == OrElse(_extract_field(text, ProposedConfigKey), EmptyConfig)
    IN IF \E key \in {SelectedActionKey, ReasoningKey, ProposedConfigKey} :
             OrElse(_extract_field(text, key), <<>>) # <<>>
       THEN AgentResponse(StrVal(selected_action), StrVal(reasoning), StrVal(proposed_config))
       ELSE AgentResponse(StrVal(ParseError), StrVal(FullFallbackReasoning(text)),
                          StrVal(EmptyConfig))

\* the except branch of _parse_response
ParseFallback(text) ==
    LET selected_action == OrElse(_extract_field(text, SelectedActionKey), ParseError)
        reasoning == OrElse(_extract_field(text, ReasoningKey),
                            ParseFailedPrefix \o JSONDecodeErrorText)
        proposed_config == OrElse(_extract_field(text, ProposedConfigKey), EmptyConfig)
    IN IF selected_action # ParseError
       THEN AgentResponse(StrVal(selected_action), StrVal(reasoning), StrVal(proposed_config))
       ELSE AgentResponse(StrVal(ParseError), StrVal(FullFallbackReasoning(text)),
                          StrVal(EmptyConfig))

\* _parse_response(output)
_parse_response(text) ==
    LET data == JsonLoads(JsonCandidate(text))
    IN IF ~data.ok THEN ParseFallback(text)
       ELSE IF data.val.t # "obj" THEN Raised("AttributeError")
       ELSE AgentResponse(DictGet(data.val.v, SelectedActionKey, StrVal(Unknown)),
                          DictGet(data.val.v, ReasoningKey, StrVal(NoReasoning)),
                          DictGet(data.val.v, ProposedConfigKey, StrVal(EmptyConfig)))

(***************************************************************************)
(* Raw texts handed to _parse_response                                     *)
(***************************************************************************)
\* longest text of the exhaustive family
MaxFuzzLen == 3

\* how far around RawOutputLimit the lengths of the long texts range
OverLimit == 1

FuzzAlphabet == {"{", "}", "[", "]", QUOTE, "1", "a"}

\* all texts over FuzzAlphabet of length at most n
RECURSIVE SeqsUpTo(_, _)
SeqsUpTo(S, n) ==
    IF n = 0 THEN {<<>>}
    ELSE LET shorter == SeqsUpTo(S, n - 1)
         IN shorter \cup {Append(t, c) : t \in {u \in shorter : Len(u) = n - 1}, c \in S}

FuzzTexts == SeqsUpTo(FuzzAlphabet, MaxFuzzLen)

\* long prose without any field, around the 500-character limit
LongTexts ==
    {Rep(n, "x") : n \in (RawOutputLimit - OverLimit)..(RawOutputLimit + OverLimit)}

\* json.dumps of a string: the text of a JSON string literal for value v
RECURSIVE JsonEscape(_)
JsonEscape(v) ==
    IF Len(v) = 0 THEN <<>>
    ELSE (CASE v[1] = QUOTE -> <<BS, QUOTE>>
            [] v[1] = BS -> <<BS, BS>>
            [] v[1] = NL -> <<BS, "n">>
            [] OTHER -> <<v[1]>>) \o JsonEscape(From(v, 2))

JsonString(v) == <<QUOTE>> \o JsonEscape(v) \o <<QUOTE>>

\* the text of a JSON object whose members are the <<key, value text>> pairs
RECURSIVE JsonMembers(_)
JsonMembers(members) ==
    IF Len(members) = 0 THEN <<>>
    ELSE JsonString(members[1][1]) \o <<":", SP>> \o members[1][2]
         \o (IF Len(members) > 1 THEN <<",", SP>> ELSE <<>>)
         \o JsonMembers(From(members, 2))

JsonObject(members) == <<"{">> \o JsonMembers(members) \o <<"}">>

\* the well-formed document {"selected_action": A, "reasoning": R, "proposed_config": C}
Document(A, R, C) ==
    JsonObject(<<<<SelectedActionKey, JsonString(A)>>, <<ReasoningKey, JsonString(R)>>,
                 <<ProposedConfigKey, JsonString(C)>>>>)

\* field values: plain, empty, with a quote, a backslash, a newline, a fence
FieldValues ==
    {<<"a">>, <<>>, <<"a", QUOTE, "b">>, <<BS>>, <<"a", NL>>, Fence, ParseError}

Prose == {<<>>, <<"o", "k", SP>>, <<"o", "k", NL>>}

\* prose around a json-tagged fenced block that holds a well-formed document
FencedDocument(pre, A, R, C, post) ==
    pre \o JsonFence \o <<NL>> \o Document(A, R, C) \o <<NL>> \o Fence \o post

WellFormedTexts ==
    {FencedDocument(pre, A, R, C, post) :
        pre \in Prose, A \in FieldValues, R \in FieldValues, C \in FieldValues, post \in Prose}

\* documents cut off at every length (truncated model output)
TruncatedTexts ==
    UNION {{Take(Document(A, R, C), n) : n \in 0..Len(Document(A, R, C))} :
              A \in {<<"a">>, <<"a", QUOTE, "b">>, ParseError, <<>>},
              R \in {<<"a">>, <<"a", NL>>, <<"a", QUOTE, "b">>}, C \in {<<"{", "}">>}}

\* value texts that are valid JSON of every shape
ShapeValueTexts ==
    {<<"[", "]">>, <<"[", "1", ",", SP, QUOTE, "a", QUOTE, "]">>, <<"1">>, <<"1", "e", "1">>,
     JsonString(<<"a">>), FalseLit, <<"{", "}">>, <<"{", QUOTE, "a", QUOTE, ":", "1", "}">>}

\* objects in which each response field is absent, a string, or another shape
MemberChoices(key) ==
    {<<>>} \cup {<<<<key, JsonString(v)>>>> : v \in {<<"a">>, <<"a", QUOTE, "b">>}}
           \cup {<<<<key, raw>>>> : raw \in {<<"1">>, <<"[", "]">>, FalseLit}}

ShapeTexts ==
    ShapeValueTexts
    \cup {JsonObject(a \o r \o c) : a \in MemberChoices(SelectedActionKey),
                                   r \in MemberChoices(ReasoningKey),
                                   c \in MemberChoices(ProposedConfigKey)}

\* the same texts inside an untagged fence, and after a line of prose
WrappedShapeTexts ==
    {Fence \o <<NL>> \o t \o <<NL>> \o Fence : t \in ShapeTexts}
    \cup {<<"o", "k", NL, SP>> \o t : t \in ShapeTexts}

\* fenced blocks, tagged or not, closed or not, after an earlier untagged
\* fence or none
FenceTexts ==
    {pre \o open \o <<NL>> \o body \o close \o post :
        pre \in {<<>>, Fence \o <<"a">> \o Fence \o <<NL>>, Fence \o <<NL>>},
        open \in {JsonFence, Fence},
        body \in {<<"{", "}">>, Document(<<"a">>, <<"b">>, <<"{", "}">>)},
        close \in {<<>>, <<NL>> \o Fence},
        post \in {<<>>, <<NL, "o", "k">>}}

\* objects without a fence: after prose on the same line, on a later line
\* after blank lines and indentation, and indented on the first line
BraceTexts ==
    {pre \o body \o post :
        pre \in {<<"o", "k", SP>>, <<"o", "k", NL, NL, SP>>, <<SP>>,
                 <<"{", "a", NL, SP>>},
        body \in {<<"{", "}">>, Document(<<"a">>, <<"b">>, <<"{", "}">>)},
        post \in {<<>>, <<NL>>}}

ParseInputs ==
    FuzzTexts \cup LongTexts \cup WellFormedTexts \cup TruncatedTexts
    \cup ShapeTexts \cup WrappedShapeTexts \cup FenceTexts \cup BraceTexts

(***************************************************************************)
(* Idle values of the state of the components a specification leaves out   *)
(***************************************************************************)
NoResponse ==
    [kind |-> "none", exc |-> "", selected_action |-> <<>>, reasoning |-> <<>>,
     proposed_config |-> <<>>]

ParseIdle == output = <<>> /\ response = NoResponse /\ ppc = "idle" /\ json_str = <<>>

TraceIdle ==
    /\ messages = <<>> /\ midx = 0 /\ steps = <<>> /\ tool_calls_list = <<>>
    /\ step_number = 0 /\ pending_tool_calls = <<>> /\ tpc = "idle"

EvalIdle ==
    /\ given_scenarios = <<>> /\ scenarios = <<>> /\ scenario_results = <<>>
    /\ agent_fn = <<>> /\ metrics = <<>> /\ epc = "idle"
    /\ agent_calls = <<>> /\ eval_results = <<>>

CompareIdle ==
    baseline_dict = <<>> /\ current_dict = <<>> /\ comparison = <<>> /\ cpc = "idle"

SaveIdle == results_dir = <<>> /\ save_log = <<>> /\ clock = 0 /\ runs_done = 0

RunIdle ==
    /\ verbose_arg = FALSE /\ AGENT_VERBOSE = FALSE /\ self_verbose = FALSE
    /\ invoke_outcome = <<>> /\ final_messages = <<>> /\ trace = <<>>
    /\ run_response = <<>> /\ rpc = "idle"

DocsIdle ==
    /\ action_id_arg = "" /\ query_arg = <<>> /\ vectorstore = <<>> /\ tool_result = <<>>
    /\ dpc = "idle"

ActionsIdle ==
    /\ actions_query = <<>> /\ actions_result = <<>> /\ gpc = "idle"
    /\ checked_id = "" /\ id_valid = FALSE /\ vpc = "idle"

ExtraIdle == CompareIdle /\ SaveIdle /\ RunIdle /\ DocsIdle /\ ActionsIdle

(***************************************************************************)
(* Specification of the response parser                                    *)
(***************************************************************************)
InitParse ==
    /\ output \in ParseInputs
    /\ response = NoResponse
    /\ ppc = "start"
    /\ json_str = <<>>
    /\ TraceIdle /\ EvalIdle /\ ExtraIdle

\* one call response = self._parse_response(output)
ParseResponse ==
    /\ ppc = "start"
    /\ json_str' = JsonCandidate(output)
    /\ response' = _parse_response(output)
    /\ ppc' = "done"
    /\ UNCHANGED <<output, tvars, evars, xvars>>

NextParse == ParseResponse

SpecParse == InitParse /\ [][NextParse]_vars

(***************************************************************************)
(* IntegrationAgent._extract_trace                                         *)
(* A message is a record [type, content, tool_calls, tool_call_id, name];  *)
(* a dict of tool arguments is a set of <<key, value>> pairs.              *)
(***************************************************************************)
\* characters of an assistant text kept in a Final Answer observation
FinalAnswerLimit == 200

\* characters of a tool output kept in observations and tool-call records
ToolOutputLimit == 500

Ellipsis == <<".", ".", ".">>

\* content[:limit] + "..." if len(content) > limit else content
Truncate(content, limit) ==
    IF Len(content) > limit THEN Take(content, limit) \o Ellipsis ELSE content

\* _infer_thought(tool_name, tool_args)
_infer_thought(tool_name, tool_args) ==
    IF tool_name = "get_available_actions"
    THEN <<"I need to see what integration actions are available to handle this request.">>
    ELSE IF tool_name = "retrieve_api_documentation"
    THEN <<"Now I need to retrieve the API documentation for '",
           IF \E kv \in tool_args : kv[1] = "action_id"
           THEN (CHOOSE kv \in tool_args : kv[1] = "action_id")[2]
           ELSE "the selected action",
           "' to understand the required payload structure.">>
    ELSE IF tool_name = "search_actions"
    THEN <<"Searching for actions matching '",
           IF \E kv \in tool_args : kv[1] = "query"
           THEN (CHOOSE kv \in tool_args : kv[1] = "query")[2]
           ELSE "",
           "' to find the best fit.">>
    ELSE <<"Calling ", tool_name, " to gather more information.">>

\* action_input=None
NoInput == [found |-> FALSE, v |-> {}]

\* final-response step cut at the limit of tool outputs
FinalAnswerStep_tool_limit(number, content) ==
    [step_number |-> number,
     thought |-> <<"Generating final response">>,
     action |-> <<"Final Answer">>,
     action_input |-> NoInput,
     observation |-> Some(Truncate(content, ToolOutputLimit))]

\* ThoughtStep(...) of a final response
FinalAnswerStep(number, content) ==
    [step_number |-> number,
     thought |-> <<"Generating final response">>,
     action |-> <<"Final Answer">>,
     action_input |-> NoInput,
     observation |-> Some(Truncate(content, FinalAnswerLimit))]

\* tool-call step created with an empty observation instead of None
ToolCallStep_observed(number, tc) ==
    [step_number |-> number,
     thought |-> _infer_thought(tc.name, tc.args),
     action |-> <<"Call tool: ", tc.name>>,
     action_input |-> Some(tc.args),
     observation |-> Some(<<>>)]

\* ThoughtStep(...) of a tool call
ToolCallStep(number, tc) ==
    [step_number |-> number,
     thought |-> _infer_thought(tc.name, tc.args),
     action |-> <<"Call tool: ", tc.name>>,
     action_input |-> Some(tc.args),
     observation |-> None]

\* pending_tool_calls[tool_id] = (step, len(steps) - 1)
DictSet(d, key, value) ==
    [k \in DOMAIN d \cup {key} |-> IF k = key THEN value ELSE d[k]]

\* the loop  for tc in tool_calls  with step_number += 1 left out
RECURSIVE ProcessToolCalls_shared_number(_, _)
ProcessToolCalls_shared_number(tcs, locals) ==
    IF Len(tcs) = 0 THEN locals
    ELSE LET st == Append(locals.steps, ToolCallStep(locals.number, tcs[1]))
         IN ProcessToolCalls_shared_number(Tail(tcs),
                [steps |-> st,
                 pending |-> DictSet(locals.pending, tcs[1].id, Len(st)),
                 number |-> locals.number])

\* the loop  for tc in tool_calls  over the locals [steps, pending, number]
RECURSIVE ProcessToolCalls(_, _)
ProcessToolCalls(tcs, locals) ==
    IF Len(tcs) = 0 THEN locals
    ELSE LET st == Append(locals.steps, ToolCallStep(locals.number, tcs[1]))
         IN ProcessToolCalls(Tail(tcs),
                [steps |-> st,
                 pending |-> DictSet(locals.pending, tcs[1].id, Len(st)),
                 number |-> locals.number + 1])

\* ToolCall(tool_name=..., tool_input=..., tool_output=..., duration_ms=0)
ToolCall(tool_name, tool_input, tool_output) ==
    [tool_name |-> tool_name, tool_input |-> tool_input, tool_output |-> tool_output,
     duration_ms |-> 0]

\* pending_tool_calls.get(tool_id, ({}, 0))[0].action_input or {}
\* The default ({}, 0) holds a dict where a step is expected, and a dict has
\* no attribute action_input.
ToolInputOf(pending, stepList, tool_id) ==
    IF tool_id \in DOMAIN pending
    THEN [raised |-> FALSE,
          v |-> IF stepList[pending[tool_id]].action_input.found
                THEN stepList[pending[tool_id]].action_input.v ELSE {}]
    ELSE [raised |-> TRUE, v |-> {}]

(***************************************************************************)
(* Event lists handed to _extract_trace                                    *)
(***************************************************************************)
\* longest event list
MaxMessages == 3

Msg(type, content, tool_calls, tool_call_id, name) ==
    [type |-> type, content |-> content, tool_calls |-> tool_calls,
     tool_call_id |-> tool_call_id, name |-> name]

TC(name, args, id) == [name |-> name, args |-> args, id |-> id]

ShortText == <<"o", "k">>

CallT1 == TC("get_available_actions", {}, "t1")

CallT2 == TC("retrieve_api_documentation", {<<"action_id", "slack_post_message">>}, "t2")

MessageChoices ==
    {Msg("system", ShortText, <<>>, "", ""),
     Msg("human", ShortText, <<>>, "", ""),
     Msg("ai", ShortText, <<>>, "", ""),
     Msg("ai", Rep(FinalAnswerLimit + 1, "x"), <<>>, "", ""),
     Msg("ai", <<>>, <<>>, "", ""),
     Msg("ai", <<>>, <<CallT1>>, "", ""),
     Msg("ai", ShortText, <<CallT1, CallT2>>, "", ""),
     Msg("tool", ShortText, <<>>, "t1", "get_available_actions"),
     Msg("tool", <<"n", "o">>, <<>>, "t1", "get_available_actions"),
     Msg("tool", Rep(ToolOutputLimit + 1, "y"), <<>>, "t2", "retrieve_api_documentation"),
     Msg("tool", <<>>, <<>>, "t3", "search_actions")}

MessageLists == SeqsUpTo(MessageChoices, MaxMessages)

(***************************************************************************)
(* Specification of the trace reconstruction: one action per iteration of  *)
(* the loop  for msg in messages                                           *)
(***************************************************************************)
InitTrace ==
    /\ messages \in MessageLists
    /\ midx = 1
    /\ steps = <<>>
    /\ tool_calls_list = <<>>
    /\ step_number = 1
    /\ pending_tool_calls = <<>>
    /\ tpc = "loop"
    /\ ParseIdle /\ EvalIdle /\ ExtraIdle

\* isinstance(msg, (SystemMessage, HumanMessage)): continue
SkipInputMessage ==
    /\ tpc = "loop" /\ midx <= Len(messages)
    /\ messages[midx].type \in {"system", "human"}
    /\ midx' = midx + 1
    /\ UNCHANGED <<messages, steps, tool_calls_list, step_number, pending_tool_calls, tpc>>
    /\ UNCHANGED <<pvars, evars, xvars>>

\* isinstance(msg, AIMessage)
ProcessAIMessage ==
    /\ tpc = "loop" /\ midx <= Len(messages)
    /\ messages[midx].type = "ai"
    /\ LET msg == messages[midx]
           final == msg.content # <<>> /\ msg.tool_calls = <<>>
           afterFinal ==
               [steps |-> IF final THEN Append(steps, FinalAnswerStep(step_number, msg.content))
                          ELSE steps,
                pending |-> pending_tool_calls,
                number |-> IF final THEN step_number + 1 ELSE step_number]
           locals == ProcessToolCalls(msg.tool_calls, afterFinal)
       IN /\ steps' = locals.steps
          /\ pending_tool_calls' = locals.pending
          /\ step_number' = locals.number
    /\ midx' = midx + 1
    /\ UNCHANGED <<messages, tool_calls_list, tpc>>
    /\ UNCHANGED <<pvars, evars, xvars>>

\* isinstance(msg, ToolMessage)
ProcessToolMessage ==
    /\ tpc = "loop" /\ midx <= Len(messages)
    /\ messages[midx].type = "tool"
    /\ LET msg == messages[midx]
           tool_id == msg.tool_call_id
           truncated_content == Truncate(msg.content, ToolOutputLimit)
           matched == tool_id \in DOMAIN pending_tool_calls
           steps1 == IF matched
                     THEN [steps EXCEPT ![pending_tool_calls[tool_id]].observation =
                                            Some(truncated_content)]
                     ELSE steps
           tool_input == ToolInputOf(pending_tool_calls, steps1, tool_id)
       IN /\ steps' = steps1
          /\ IF tool_input.raised
             THEN /\ tpc' = "raised"
                  /\ UNCHANGED <<tool_calls_list, midx>>
             ELSE /\ tool_calls_list' =
                         Append(tool_calls_list, ToolCall(msg.name, tool_input.v, truncated_content))
                  /\ midx' = midx + 1
                  /\ UNCHANGED tpc
    /\ UNCHANGED <<messages, step_number, pending_tool_calls>>
    /\ UNCHANGED <<pvars, evars, xvars>>

\* trace.steps = steps; trace.tool_calls = tool_calls_list; return trace
ReturnTrace ==
    /\ tpc = "loop" /\ midx > Len(messages)
    /\ tpc' = "returned"
    /\ UNCHANGED <<messages, midx, steps, tool_calls_list, step_number, pending_tool_calls>>
    /\ UNCHANGED <<pvars, evars, xvars>>

NextTrace == SkipInputMessage \/ ProcessAIMessage \/ ProcessToolMessage \/ ReturnTrace

SpecTrace == InitTrace /\ [][NextTrace]_vars

(***************************************************************************)
(* EvalHarness: the template engine and the JSON parser it calls           *)
(***************************************************************************)
\* a template the engine refuses to compile
BadSyntaxTemplate == "{% if %}"

\* a template that compiles and fails while rendering
RenderErrorTemplate == "{{ x | divided_by: 0 }}"

\* a template that renders to the value of x
VariableTemplate == "{{ x }}"

\* a template that renders to a JSON object for every x
ObjectTemplate == "{ \"k\": \"{{ x }}\" }"

ConfigStrings == {BadSyntaxTemplate, RenderErrorTemplate, VariableTemplate, ObjectTemplate}

\* values bound to x by a scenario's variables
XValues == {"1", "not json"}

\* Template(config_str) returns (TRUE) or raises (FALSE)
TemplateCompiles(config_str) == config_str # BadSyntaxTemplate

\* template.render(**variables): ok = FALSE when it raises
TemplateRender(config_str, variables) ==
    IF config_str = RenderErrorTemplate THEN [ok |-> FALSE, text |-> ""]
    ELSE IF config_str = VariableTemplate THEN [ok |-> TRUE, text |-> variables.x]
    ELSE [ok |-> TRUE, text |-> "{ \"k\": \"" \o variables.x \o "\" }"]

\* json.loads(rendered) returns (TRUE) or raises json.JSONDecodeError (FALSE)
RenderedJsonParses(text) ==
    text \in {"1"} \cup {"{ \"k\": \"" \o x \o "\" }" : x \in XValues}

\* an optional string: None
NoneStr == [found |-> FALSE, v |-> ""]

SomeStr(v) == [found |-> TRUE, v |-> v]

(***************************************************************************)
(* EvalHarness.validate_liquid_template, run_scenario, run                 *)
(***************************************************************************)
\* validate_liquid_template with a JSON failure reported like a template failure
validate_liquid_template_collapsed(config_str, context) ==
    LET variables == context.variables
    IN IF TemplateCompiles(config_str) /\ TemplateRender(config_str, variables).ok
          /\ RenderedJsonParses(TemplateRender(config_str, variables).text)
       THEN <<TRUE, TRUE, SomeStr(TemplateRender(config_str, variables).text)>>
       ELSE <<FALSE, FALSE, NoneStr>>

\* validate_liquid_template that reports a template whose rendering is not
\* JSON as invalid Liquid, and still hands back the rendered text
validate_liquid_template_invalid_with_text(config_str, context) ==
    LET variables == context.variables
    IN IF ~TemplateCompiles(config_str) THEN <<FALSE, FALSE, NoneStr>>
       ELSE IF ~TemplateRender(config_str, variables).ok THEN <<FALSE, FALSE, NoneStr>>
       ELSE IF RenderedJsonParses(TemplateRender(config_str, variables).text)
       THEN <<TRUE, TRUE, SomeStr(TemplateRender(config_str, variables).text)>>
       ELSE <<FALSE, FALSE, SomeStr(TemplateRender(config_str, variables).text)>>

\* validate_liquid_template(config_str, context)
validate_liquid_template(config_str, context) ==
    LET variables == context.variables
    IN IF ~TemplateCompiles(config_str) THEN <<FALSE, FALSE, NoneStr>>
       ELSE IF ~TemplateRender(config_str, variables).ok THEN <<FALSE, FALSE, NoneStr>>
       ELSE IF RenderedJsonParses(TemplateRender(config_str, variables).text)
       THEN <<TRUE, TRUE, SomeStr(TemplateRender(config_str, variables).text)>>
       \* except json.JSONDecodeError: compile and render once more
       ELSE IF TemplateCompiles(config_str) /\ TemplateRender(config_str, variables).ok
       THEN <<TRUE, FALSE, SomeStr(TemplateRender(config_str, variables).text)>>
       ELSE <<FALSE, FALSE, NoneStr>>

\* a ScenarioResult numbered from 1 instead of from 0
ScenarioResult_one_based(scenario_id, request, expected_action) ==
    [scenario_id |-> scenario_id + 1, request |-> request, expected_action |-> expected_action,
     actual_action |-> NoneStr, action_correct |-> FALSE, liquid_valid |-> FALSE,
     renders_to_json |-> FALSE, reasoning |-> "", proposed_config |-> "",
     rendered_config |-> NoneStr, latency_ms |-> 0, error |-> NoneStr]

\* ScenarioResult(scenario_id=..., request=..., expected_action=...)
ScenarioResult(scenario_id, request, expected_action) ==
    [scenario_id |-> scenario_id, request |-> request, expected_action |-> expected_action,
     actual_action |-> NoneStr, action_correct |-> FALSE, liquid_valid |-> FALSE,
     renders_to_json |-> FALSE, reasoning |-> "", proposed_config |-> "",
     rendered_config |-> NoneStr, latency_ms |-> 0, error |-> NoneStr]

\* the agent function returned a response after latency milliseconds
Returns(selected_action, reasoning, proposed_config, latency) ==
    [kind |-> "returns", selected_action |-> selected_action, reasoning |-> reasoning,
     proposed_config |-> proposed_config, latency |-> latency, message |-> ""]

\* the agent function raised an exception e with str(e) = message
Raises(message) ==
    [kind |-> "raises", selected_action |-> "", reasoning |-> "", proposed_config |-> "",
     latency |-> 0, message |-> message]

\* str.lower() on the action names the agent functions return
Lower(a) == IF a = "Slack_Post_Message" THEN "slack_post_message" ELSE a

\* run_scenario that compares the actions without regard to case
run_scenario_case_insensitive(scenario, scenario_id, call) ==
    LET result == ScenarioResult(scenario_id, scenario.request, scenario.expected_action)
        validated == validate_liquid_template(call.proposed_config, scenario.context)
    IN IF call.kind = "returns"
       THEN [raised |-> FALSE,
             result |-> [result EXCEPT
                 !.latency_ms = call.latency,
                 !.actual_action = SomeStr(call.selected_action),
                 !.reasoning = call.reasoning,
                 !.proposed_config = call.proposed_config,
                 !.action_correct = (Lower(call.selected_action) = Lower(scenario.expected_action)),
                 !.liquid_valid = validated[1],
                 !.renders_to_json = validated[2],
                 !.rendered_config = validated[3]]]
       ELSE [raised |-> FALSE,
             result |-> [result EXCEPT !.error = SomeStr(call.message), !.latency_ms = 0]]

\* run_scenario without the try/except around the agent call
run_scenario_uncaught(scenario, scenario_id, call) ==
    LET result == ScenarioResult(scenario_id, scenario.request, scenario.expected_action)
        validated == validate_liquid_template(call.proposed_config, scenario.context)
    IN [raised |-> call.kind = "raises",
        result |-> [result EXCEPT
            !.latency_ms = call.latency,
            !.actual_action = SomeStr(call.selected_action),
            !.reasoning = call.reasoning,
            !.proposed_config = call.proposed_config,
            !.action_correct = (call.selected_action = scenario.expected_action),
            !.liquid_valid = validated[1],
            !.renders_to_json = validated[2],
            !.rendered_config = validated[3]]]

\* run_scenario that keeps the elapsed time of a failed call
run_scenario_timed_failure(scenario, scenario_id, call) ==
    LET result == ScenarioResult(scenario_id, scenario.request, scenario.expected_action)
        validated == validate_liquid_template(call.proposed_config, scenario.context)
    IN IF call.kind = "returns"
       THEN [raised |-> FALSE,
             result |-> [result EXCEPT
                 !.latency_ms = call.latency,
                 !.actual_action = SomeStr(call.selected_action),
                 !.reasoning = call.reasoning,
                 !.proposed_config = call.proposed_config,
                 !.action_correct = (call.selected_action = scenario.expected_action),
                 !.liquid_valid = validated[1],
                 !.renders_to_json = validated[2],
                 !.rendered_config = validated[3]]]
       ELSE [raised |-> FALSE,
             result |-> [result EXCEPT !.error = SomeStr(call.message), !.latency_ms = 1]]

\* run_scenario(scenario, scenario_id, agent_fn), call being what agent_fn
\* does on this scenario; raised says whether an exception leaves run_scenario
run_scenario(scenario, scenario_id, call) ==
    LET result == ScenarioResult(scenario_id, scenario.request, scenario.expected_action)
        validated == validate_liquid_template(call.proposed_config, scenario.context)
    IN IF call.kind = "returns"
       THEN [raised |-> FALSE,
             result |-> [result EXCEPT
                 !.latency_ms = call.latency,
                 !.actual_action = SomeStr(call.selected_action),
                 !.reasoning = call.reasoning,
                 !.proposed_config = call.proposed_config,
                 !.action_correct = (call.selected_action = scenario.expected_action),
                 !.liquid_valid = validated[1],
                 !.renders_to_json = validated[2],
                 !.rendered_config = validated[3]]]
       ELSE [raised |-> FALSE,
             result |-> [result EXCEPT !.error = SomeStr(call.message), !.latency_ms = 0]]

\* an exact quotient num / den
Frac(num, den) == [num |-> num, den |-> den]

\* sum(1 for r in results if r.<flag>), flag being the name of a boolean field
CountWhere(results, flag) == Len(SelectSeq(results, LAMBDA r : r[flag]))

\* sum(r.latency_ms for r in results)
RECURSIVE SumLatency(_)
SumLatency(results) ==
    IF Len(results) = 0 THEN 0 ELSE results[1].latency_ms + SumLatency(Tail(results))

\* [r for r in scenario_results if r.error is None]
Successful(results) == SelectSeq(results, LAMBDA r : ~r.error.found)

\* the percentage taken over all results instead of the successful ones
PercentOfAll(results, flag) ==
    IF Len(results) # 0
    THEN Frac(100 * CountWhere(Successful(results), flag), Len(results))
    ELSE Frac(0, 1)

\* count / len(successful) * 100 if successful else 0
PercentOfSuccessful(results, flag) ==
    LET successful == Successful(results)
    IN IF Len(successful) # 0
       THEN Frac(100 * CountWhere(successful, flag), Len(successful))
       ELSE Frac(0, 1)

\* the metrics dict of run; raised stands for ZeroDivisionError
ComputeMetrics(results) ==
    LET successful == Successful(results)
    IN [raised |-> Len(results) = 0,
        metrics |->
          [action_accuracy |-> PercentOfSuccessful(results, "action_correct"),
           liquid_valid |-> PercentOfSuccessful(results, "liquid_valid"),
           renders_to_json |-> PercentOfSuccessful(results, "renders_to_json"),
           avg_latency_ms |->
               IF Len(successful) # 0
               THEN Frac(SumLatency(successful), Len(successful))
               ELSE Frac(0, 1),
           error_rate |->
               IF Len(results) = 0 THEN Frac(0, 1)
               ELSE Frac(100 * Len(SelectSeq(results, LAMBDA r : r.error.found)), Len(results))]]

\* TestScenario(request=..., expected_action=..., context={"variables": ...})
TestScenario(request, expected_action, x) ==
    [request |-> request, expected_action |-> expected_action,
     context |-> [variables |-> [x |-> x]]]

DEFAULT_SCENARIOS ==
    <<TestScenario("Post the summary to Slack", "slack_post_message", "not json"),
      TestScenario("Add these products to my Notion database", "notion_create_page", "not json"),
      TestScenario("Create a GitHub issue for the failed scrape", "github_create_issue", "not json"),
      TestScenario("Add these results to the existing spreadsheet", "google_sheets_append", "not json"),
      TestScenario("Update the Notion block with the new status message", "notion_update_block", "not json"),
      TestScenario("Create a record in my Airtable base with the product data", "airtable_create_record", "not json"),
      TestScenario("Add this lead as a contact in HubSpot", "hubspot_create_contact", "not json"),
      TestScenario("Create a Trello card for this task", "trello_create_card", "not json"),
      TestScenario("Create a Jira ticket for this bug", "jira_create_issue", "not json"),
      TestScenario("Create a new customer in Stripe for this signup", "stripe_create_customer", "not json"),
      TestScenario("Send an email notification via SendGrid about the order", "sendgrid_send_email", "not json"),
      TestScenario("Send an SMS alert via Twilio about the system status", "twilio_send_sms", "not json")>>

\* the scenarios argument None
NoScenarios == [found |-> FALSE, v |-> <<>>]

\* __init__ that falls back to the defaults for None only
EvalHarness_init_none_only(given) == IF given.found THEN given.v ELSE DEFAULT_SCENARIOS

\* __init__ that ignores the scenarios argument
EvalHarness_init_always_default(given) == DEFAULT_SCENARIOS

\* EvalHarness.__init__: self.scenarios = scenarios or self.DEFAULT_SCENARIOS
EvalHarness_init(given) ==
    IF given.found /\ given.v # <<>> THEN given.v ELSE DEFAULT_SCENARIOS

\* EvalResults(..., total_scenarios=len(self.scenarios)): details defaults to []
EvalResults(total_scenarios) == [total_scenarios |-> total_scenarios, details |-> <<>>]

\* dataclasses.asdict(r): one key per field of the ScenarioResult
asdict(r) ==
    [scenario_id |-> r.scenario_id, request |-> r.request,
     expected_action |-> r.expected_action, actual_action |-> r.actual_action,
     action_correct |-> r.action_correct, liquid_valid |-> r.liquid_valid,
     renders_to_json |-> r.renders_to_json, reasoning |-> r.reasoning,
     proposed_config |-> r.proposed_config, rendered_config |-> r.rendered_config,
     latency_ms |-> r.latency_ms, error |-> r.error]

\* the arguments of agent_fn(scenario.request, scenario.context)
AgentArgs(scenario) == <<scenario.request, scenario.context>>

(***************************************************************************)
(* Harnesses and agent functions of the evaluation runs                    *)
(***************************************************************************)
\* longest custom scenario list
MaxScenarios == 2

ScenarioChoices ==
    {TestScenario("Post the summary to Slack", "slack_post_message", "1"),
     TestScenario("Create a GitHub issue", "github_create_issue", "not json")}

GivenScenarios ==
    {NoScenarios} \cup {[found |-> TRUE, v |-> l] : l \in SeqsUpTo(ScenarioChoices, MaxScenarios)}

\* what one call of an agent function can do
AgentOutcomes ==
    {Raises("boom")}
    \cup {Returns(a, "because", c, l) :
            a \in {"slack_post_message", "github_create_issue"}, c \in ConfigStrings,
            l \in {1, 2}}
    \* an action that differs from an expected one in case only
    \cup {Returns("Slack_Post_Message", "because", ObjectTemplate, 1)}

\* agent functions for a scenario list: every sequence of outcomes on a short
\* list; on the long default list the agents that do the same on every
\* scenario, or the same on all but one scenario
AgentFunctions(list) ==
    IF Len(list) <= MaxScenarios
    THEN [1..Len(list) -> AgentOutcomes]
    ELSE {[k \in 1..Len(list) |-> o] : o \in AgentOutcomes}
         \cup {[k \in 1..Len(list) |-> IF k = j THEN Raises("boom") ELSE o] :
                  o \in {Returns("slack_post_message", "because", ObjectTemplate, 2)},
                  j \in 1..Len(list)}

(***************************************************************************)
(* Specification of an evaluation run: one action per scenario of the loop *)
(* of run, one for the aggregation                                         *)
(***************************************************************************)
InitEval ==
    /\ given_scenarios \in GivenScenarios
    /\ scenarios = EvalHarness_init(given_scenarios)
    /\ agent_fn \in AgentFunctions(scenarios)
    /\ scenario_results = <<>>
    /\ metrics = <<>>
    /\ epc = "running"
    /\ agent_calls = <<>>
    /\ eval_results = EvalResults(Len(scenarios))
    /\ ParseIdle /\ TraceIdle /\ ExtraIdle

\* result = self.run_scenario(scenario, i, agent_fn); scenario_results.append(result)
\* run_scenario calls agent_fn once, inside its try block
RunScenario ==
    /\ epc = "running" /\ Len(scenario_results) < Len(scenarios)
    /\ LET i == Len(scenario_results)
           r == run_scenario(scenarios[i + 1], i, agent_fn[i + 1])
       IN IF r.raised
          THEN epc' = "raised" /\ UNCHANGED scenario_results
          ELSE scenario_results' = Append(scenario_results, r.result) /\ UNCHANGED epc
    /\ agent_calls' = Append(agent_calls, AgentArgs(scenarios[Len(scenario_results) + 1]))
    /\ UNCHANGED <<given_scenarios, scenarios, agent_fn, metrics, eval_results>>
    /\ UNCHANGED <<pvars, tvars, xvars>>

\* results.metrics = {...}; return results
AggregateAndReturn ==
    /\ epc = "running" /\ Len(scenario_results) = Len(scenarios)
    /\ LET m == ComputeMetrics(scenario_results)
       IN IF m.raised
          THEN epc' = "raised" /\ UNCHANGED <<metrics, eval_results>>
          ELSE /\ epc' = "returned" /\ metrics' = m.metrics
               /\ eval_results' = [eval_results EXCEPT
                                      !.details = [k \in 1..Len(scenario_results) |->
                                                      asdict(scenario_results[k])]]
    /\ UNCHANGED <<given_scenarios, scenarios, agent_fn, scenario_results, agent_calls>>
    /\ UNCHANGED <<pvars, tvars, xvars>>

NextEval == RunScenario \/ AggregateAndReturn

SpecEval == InitEval /\ [][NextEval]_vars

(***************************************************************************)
(* EvalHarness.compare_results                                             *)
(* A dict is a function from its keys; metric values are whole numbers.    *)
(***************************************************************************)
\* d.get(key, default)
dict_get(d, key, default) == IF key \in DOMAIN d THEN d[key] ELSE default

\* d.get(key): None when the key is missing
NoneValue == "None"

\* the metrics the loop of compare_results goes through
ComparedMetrics == {"action_accuracy", "liquid_valid", "renders_to_json", "avg_latency_ms"}

\* the keys of the metrics dict run writes
MetricNames == ComparedMetrics \cup {"error_rate"}

\* values of a metric in a result file
MetricValues == {50, 100}

\* metrics dicts with any of the keys missing
MetricDicts ==
    {m \in UNION {[D -> MetricValues] : D \in SUBSET MetricNames} :
        "error_rate" \in DOMAIN m => m["error_rate"] = 100}

\* result dicts as load_results returns them, and one without metrics
ResultDicts ==
    {[timestamp |-> "2025-01-01T00:00:00", prompt_hash |-> "abc123", metrics |-> m] :
        m \in MetricDicts}
    \cup {[timestamp |-> "2025-01-01T00:00:00"]}

\* compare_results where a growing latency counts as an improvement
compare_results_same_direction(baseline, current) ==
    LET baseline_metrics == dict_get(baseline, "metrics", <<>>)
        current_metrics == dict_get(current, "metrics", <<>>)
    IN [baseline_timestamp |-> dict_get(baseline, "timestamp", NoneValue),
        current_timestamp |-> dict_get(current, "timestamp", NoneValue),
        baseline_prompt_hash |-> dict_get(baseline, "prompt_hash", NoneValue),
        current_prompt_hash |-> dict_get(current, "prompt_hash", NoneValue),
        metric_changes |->
            [metric \in ComparedMetrics |->
                LET baseline_val == dict_get(baseline_metrics, metric, 0)
                    current_val == dict_get(current_metrics, metric, 0)
                    change == current_val - baseline_val
                IN [baseline |-> baseline_val, current |-> current_val, change |-> change,
                    improved |-> change > 0]]]

\* compare_results(baseline, current)
compare_results(baseline, current) ==
    LET baseline_metrics == dict_get(baseline, "metrics", <<>>)
        current_metrics == dict_get(current, "metrics", <<>>)
    IN [baseline_timestamp |-> dict_get(baseline, "timestamp", NoneValue),
        current_timestamp |-> dict_get(current, "timestamp", NoneValue),
        baseline_prompt_hash |-> dict_get(baseline, "prompt_hash", NoneValue),
        current_prompt_hash |-> dict_get(current, "prompt_hash", NoneValue),
        metric_changes |->
            [metric \in ComparedMetrics |->
                LET baseline_val == dict_get(baseline_metrics, metric, 0)
                    current_val == dict_get(current_metrics, metric, 0)
                    change == current_val - baseline_val
                IN [baseline |-> baseline_val, current |-> current_val, change |-> change,
                    improved |-> IF metric # "avg_latency_ms" THEN change > 0
                                 ELSE change < 0]]]

InitCompare ==
    /\ baseline_dict \in ResultDicts
    /\ current_dict \in ResultDicts
    /\ comparison = <<>>
    /\ cpc = "start"
    /\ ParseIdle /\ TraceIdle /\ EvalIdle /\ SaveIdle /\ RunIdle /\ DocsIdle /\ ActionsIdle

\* comparison = harness.compare_results(baseline, current)
CompareResults ==
    /\ cpc = "start"
    /\ comparison' = compare_results(baseline_dict, current_dict)
    /\ cpc' = "done"
    /\ UNCHANGED <<baseline_dict, current_dict>>
    /\ UNCHANGED <<pvars, tvars, evars, svars, rvars, dvars, avars>>

NextCompare == CompareResults

SpecCompare == InitCompare /\ [][NextCompare]_vars

(***************************************************************************)
(* main: run the harness, then save_results                                *)
(* A file holds the sequence of the documents written to it.               *)
(***************************************************************************)
\* evaluation runs in one history
MaxRuns == 3

\* clock ticks in one second
TicksPerSecond == 2

\* datetime.now().isoformat(): the time at full resolution
isoformat(now) == now

\* datetime.now().strftime("%Y%m%d_%H%M%S"): the time cut to whole seconds
strftime(now) == "20250101_00000" \o ToString(now \div TicksPerSecond)

\* the values of --output: not given, or a name the caller chose
NoOutput == [found |-> FALSE, v |-> ""]

OutputArgs == {NoOutput, SomeStr("eval_v1.json"), SomeStr("eval_v2.json")}

\* results.to_dict() of the EvalResults of a run started at time now
to_dict(timestamp, total_scenarios) ==
    [timestamp |-> timestamp, total_scenarios |-> total_scenarios]

\* save_results that opens the file in append mode
save_results_append(dir, aggregate, filename) ==
    DictSet(dir, filename,
            IF filename \in DOMAIN dir THEN Append(dir[filename], aggregate)
            ELSE <<aggregate>>)

\* save_results(results, filename): open(RESULTS_DIR / filename, "w") and
\* json.dump of the aggregate; gives the files of RESULTS_DIR afterwards
save_results(dir, aggregate, filename) == DictSet(dir, filename, <<aggregate>>)

SaveEntry(filename, aggregate) == [filename |-> filename, aggregate |-> aggregate]

InitSave ==
    /\ results_dir = <<>>
    /\ save_log = <<>>
    /\ clock \in 0..(TicksPerSecond - 1)
    /\ runs_done = 0
    /\ ParseIdle /\ TraceIdle /\ EvalIdle /\ CompareIdle /\ RunIdle /\ DocsIdle /\ ActionsIdle

\* main with --mock: saves under --output when it is given, else not at all
MainMock ==
    /\ runs_done < MaxRuns
    /\ \E output_arg \in OutputArgs, duration \in 1..TicksPerSecond :
          LET aggregate == to_dict(isoformat(clock), Len(EvalHarness_init(NoScenarios)))
          IN /\ clock' = clock + duration
             /\ IF output_arg.found
                THEN /\ results_dir' = save_results(results_dir, aggregate, output_arg.v)
                     /\ save_log' = Append(save_log, SaveEntry(output_arg.v, aggregate))
                ELSE UNCHANGED <<results_dir, save_log>>
    /\ runs_done' = runs_done + 1
    /\ UNCHANGED <<pvars, tvars, evars, cvars, rvars, dvars, avars>>

\* main with --real: saves under --output, else under eval_<time>.json
MainReal ==
    /\ runs_done < MaxRuns
    /\ \E output_arg \in OutputArgs, duration \in 1..TicksPerSecond :
          LET aggregate == to_dict(isoformat(clock), Len(EvalHarness_init(NoScenarios)))
              filename == IF output_arg.found THEN output_arg.v
                          ELSE "eval_" \o strftime(clock + duration) \o ".json"
          IN /\ clock' = clock + duration
             /\ results_dir' = save_results(results_dir, aggregate, filename)
             /\ save_log' = Append(save_log, SaveEntry(filename, aggregate))
    /\ runs_done' = runs_done + 1
    /\ UNCHANGED <<pvars, tvars, evars, cvars, rvars, dvars, avars>>

NextSave == MainMock \/ MainReal

SpecSave == InitSave /\ [][NextSave]_vars

(***************************************************************************)
(* IntegrationAgent.run: invoke the agent, reconstruct the trace when      *)
(* verbose, pick the output text, parse it, attach the trace               *)
(***************************************************************************)
\* longest message list in the result of self.agent.invoke
MaxFinalMessages == 3

\* a response document as the content of the last assistant message
AnswerText == Document(<<"a">>, <<"b">>, <<"{", "}">>)

FinalMessageChoices ==
    {Msg("human", ShortText, <<>>, "", ""),
     Msg("ai", <<>>, <<CallT1>>, "", ""),
     Msg("tool", ShortText, <<>>, "t1", "get_available_actions"),
     Msg("tool", <<>>, <<>>, "t3", "search_actions"),
     Msg("ai", AnswerText, <<>>, "", "")}

\* self.agent.invoke raises, or returns a result with these messages
InvokeOutcomes ==
    {[kind |-> "raises", messages |-> <<>>]}
    \cup {[kind |-> "returns", messages |-> l] :
            l \in SeqsUpTo(FinalMessageChoices, MaxFinalMessages)}

\* self.verbose = verbose or AGENT_VERBOSE
IntegrationAgent_init(verbose, agent_verbose) == verbose \/ agent_verbose

\* the trace condition of run without the test of self.verbose
TraceWanted_any_run(verbose, msgs) == msgs # <<>>

\* if self.verbose and final_messages
TraceWanted(verbose, msgs) == verbose /\ msgs # <<>>

\* trace = None
NoTrace == [found |-> FALSE, steps |-> <<>>, tool_calls |-> <<>>]

\* the AgentTrace _extract_trace returns
AgentTrace(stepList, toolCalls) == [found |-> TRUE, steps |-> stepList, tool_calls |-> toolCalls]

\* for msg in reversed(final_messages): the content of the last message
\* that has one, else "{}"
RECURSIVE LastContent(_)
LastContent(msgs) ==
    IF Len(msgs) = 0 THEN EmptyConfig
    ELSE IF msgs[Len(msgs)].content # <<>> THEN msgs[Len(msgs)].content
    ELSE LastContent(SubSeq(msgs, 1, Len(msgs) - 1))

InitRun ==
    /\ verbose_arg \in BOOLEAN
    /\ AGENT_VERBOSE \in BOOLEAN
    /\ self_verbose = IntegrationAgent_init(verbose_arg, AGENT_VERBOSE)
    /\ invoke_outcome \in InvokeOutcomes
    /\ final_messages = <<>>
    /\ trace = NoTrace
    /\ run_response = <<>>
    /\ rpc = "invoke"
    /\ ParseIdle /\ TraceIdle /\ EvalIdle /\ CompareIdle /\ SaveIdle /\ DocsIdle /\ ActionsIdle

\* result = self.agent.invoke(...), outside any try block;
\* final_messages = result.get("messages", [])
Invoke ==
    /\ rpc = "invoke"
    /\ IF invoke_outcome.kind = "raises"
       THEN rpc' = "raised" /\ UNCHANGED final_messages
       ELSE rpc' = "invoked" /\ final_messages' = invoke_outcome.messages
    /\ UNCHANGED <<verbose_arg, AGENT_VERBOSE, self_verbose, invoke_outcome, trace, run_response>>
    /\ UNCHANGED <<pvars, tvars, evars, cvars, svars, dvars, avars>>

\* if self.verbose and final_messages: the call of self._extract_trace
\* begins, with its locals initialised
CallExtractTrace ==
    /\ rpc = "invoked"
    /\ TraceWanted(self_verbose, final_messages)
    /\ messages' = final_messages
    /\ midx' = 1
    /\ steps' = <<>>
    /\ tool_calls_list' = <<>>
    /\ step_number' = 1
    /\ pending_tool_calls' = <<>>
    /\ tpc' = "loop"
    /\ rpc' = "extracting"
    /\ UNCHANGED <<verbose_arg, AGENT_VERBOSE, self_verbose, invoke_outcome, final_messages,
                   trace, run_response>>
    /\ UNCHANGED <<pvars, evars, cvars, svars, dvars, avars>>

\* the call of _extract_trace is over: trace is what it returned, or its
\* exception leaves run; self._print_trace(trace) prints and changes nothing
ExtractTraceDone ==
    /\ rpc = "extracting"
    /\ tpc \in {"returned", "raised"}
    /\ IF tpc = "returned"
       THEN trace' = AgentTrace(steps, tool_calls_list) /\ rpc' = "traced"
       ELSE rpc' = "raised" /\ UNCHANGED trace
    /\ UNCHANGED <<verbose_arg, AGENT_VERBOSE, self_verbose, invoke_outcome, final_messages,
                   run_response>>
    /\ UNCHANGED <<pvars, tvars, evars, cvars, svars, dvars, avars>>

\* output = the last non-empty content, and the call of _parse_response begins
SelectOutput ==
    /\ \/ rpc = "traced"
       \/ rpc = "invoked" /\ ~TraceWanted(self_verbose, final_messages)
    /\ output' = LastContent(final_messages)
    /\ ppc' = "start"
    /\ rpc' = "parsing"
    /\ UNCHANGED <<response, json_str>>
    /\ UNCHANGED <<verbose_arg, AGENT_VERBOSE, self_verbose, invoke_outcome, final_messages,
                   trace, run_response>>
    /\ UNCHANGED <<tvars, evars, cvars, svars, dvars, avars>>

\* if trace: response.trace = trace; return response
ReturnResponse ==
    /\ rpc = "parsing" /\ ppc = "done"
    /\ IF response.kind = "raised"
       THEN rpc' = "raised" /\ UNCHANGED run_response
       ELSE /\ rpc' = "returned"
            /\ run_response' =
                  [selected_action |-> response.selected_action,
                   reasoning |-> response.reasoning,
                   proposed_config |-> response.proposed_config,
                   trace |-> IF trace.found THEN trace ELSE NoTrace]
    /\ UNCHANGED <<verbose_arg, AGENT_VERBOSE, self_verbose, invoke_outcome, final_messages,
                   trace>>
    /\ UNCHANGED <<pvars, tvars, evars, cvars, svars, dvars, avars>>

NextRun ==
    \/ Invoke
    \/ CallExtractTrace
    \/ NextTrace
    \/ ExtractTraceDone
    \/ SelectOutput
    \/ ParseResponse
    \/ ReturnResponse

SpecRun == InitRun /\ [][NextRun]_vars

(***************************************************************************)
(* tools: retrieve_api_documentation                                       *)
(* The catalog is the list of data/actions.json; the vector store is the   *)
(* list of its chunks in the order of their similarity to the search       *)
(* query; a page content is a sequence of characters.                      *)
(***************************************************************************)
\* most chunks in the vector store
MaxChunks == 3

\* k=4 of store.search
SearchK == 4

\* characters of a chunk that go into its content hash
HashPrefix == 100

\* ACTION_TO_INTEGRATION
ACTION_TO_INTEGRATION ==
    [google_sheets_create |-> "google_sheets", google_sheets_append |-> "google_sheets",
     notion_create_page |-> "notion", notion_update_block |-> "notion",
     slack_post_message |-> "slack", airtable_create_record |-> "airtable",
     hubspot_create_contact |-> "hubspot", github_create_issue |-> "github",
     trello_create_card |-> "trello", jira_create_issue |-> "jira",
     stripe_create_customer |-> "stripe", sendgrid_send_email |-> "sendgrid",
     twilio_send_sms |-> "twilio"]

\* an entry of the catalog
Action(id, name, description, api_reference) ==
    [id |-> id, name |-> name, description |-> description, api_reference |-> api_reference]

\* _load_actions(): two actions with an integration and one without
Catalog ==
    <<Action("slack_post_message", "Send Slack Message", "Post a message to a Slack channel",
             "https://api.slack.com/methods/chat.postMessage"),
      Action("github_create_issue", "Create GitHub Issue", "Create an issue in a repository",
             "https://docs.github.com/en/rest/issues"),
      Action("discord_send_message", "Send Discord Message", "Send a message to a channel",
             "https://discord.com/developers/docs")>>

\* get_action_by_id(action_id): the first action with that id, or None
NoAction == [found |-> FALSE]

get_action_by_id(action_id) ==
    LET hits == SelectSeq(Catalog, LAMBDA a : a.id = action_id)
    IN IF Len(hits) = 0 THEN NoAction ELSE [found |-> TRUE, v |-> hits[1]]

\* a chunk with its integration metadata
Chunk(page_content, integration) == [page_content |-> page_content, integration |-> integration]

ChunkChoices ==
    {Chunk(<<"c", "h", "a", "n", "n", "e", "l">>, "slack"),
     Chunk(Rep(HashPrefix, "z") \o <<"a">>, "slack"),
     Chunk(Rep(HashPrefix, "z") \o <<"b">>, "slack"),
     Chunk(<<"t", "i", "t", "l", "e">>, "github")}

ActionIds ==
    {"slack_post_message", "github_create_issue", "discord_send_message", "twilio_send_sms",
     "invalid_action"}

\* the values of the argument query
QueryArgs == {NoneStr, SomeStr("payload")}

\* store.search(search_query, k, filter_integration): the k best chunks,
\* of the given integration when a filter is given
search(store, k, filter_integration) ==
    Take(IF filter_integration.found
         THEN SelectSeq(store, LAMBDA d : d.integration = filter_integration.v)
         ELSE store, k)

\* the loop over results: the page contents, a content left out when its
\* first 100 characters were seen before
RECURSIVE DocSections(_, _)
DocSections(found, seen_chunks) ==
    IF Len(found) = 0 THEN <<>>
    ELSE LET content_hash == Take(found[1].page_content, HashPrefix)
         IN IF content_hash \in seen_chunks THEN DocSections(Tail(found), seen_chunks)
            ELSE <<found[1].page_content>>
                 \o DocSections(Tail(found), seen_chunks \cup {content_hash})

SectionSeparator == <<NL, NL, "-", "-", "-", NL, NL>>

\* "\n\n---\n\n".join(doc_sections)
RECURSIVE Join(_)
Join(doc_sections) ==
    IF Len(doc_sections) = 0 THEN <<>>
    ELSE IF Len(doc_sections) = 1 THEN doc_sections[1]
    ELSE doc_sections[1] \o SectionSeparator \o Join(Tail(doc_sections))

NoDocumentation == <<"No documentation found for this action.">>

\* retrieve_api_documentation without the branch for an empty search result
retrieve_api_documentation_no_fallback(action_id, query, store) ==
    LET action == get_action_by_id(action_id)
        integration == IF action_id \in DOMAIN ACTION_TO_INTEGRATION
                       THEN SomeStr(ACTION_TO_INTEGRATION[action_id]) ELSE NoneStr
        found == search(store, SearchK, integration)
        doc_sections == DocSections(found, {})
    IN IF ~action.found
       THEN [error |-> <<"Unknown action: ", action_id>>,
             suggestion |-> "Use get_available_actions tool first to see valid action IDs"]
       ELSE [action |-> action.v,
             api_reference |-> action.v.api_reference,
             documentation |-> Join(doc_sections),
             chunks_retrieved |-> Len(doc_sections)]

\* retrieve_api_documentation(action_id, query) over the given vector store:
\* the dict handed to json.dumps. The search query, built from the action
\* and the argument query, only orders the chunks.
retrieve_api_documentation(action_id, query, store) ==
    LET action == get_action_by_id(action_id)
        integration == IF action_id \in DOMAIN ACTION_TO_INTEGRATION
                       THEN SomeStr(ACTION_TO_INTEGRATION[action_id]) ELSE NoneStr
        found == search(store, SearchK, integration)
        doc_sections == DocSections(found, {})
    IN IF ~action.found
       THEN [error |-> <<"Unknown action: ", action_id>>,
             suggestion |-> "Use get_available_actions tool first to see valid action IDs"]
       ELSE IF Len(found) = 0
       THEN [action |-> action.v,
             documentation |-> NoDocumentation,
             note |-> "You may need to use your knowledge of the API or ask the user for more details."]
       ELSE [action |-> action.v,
             api_reference |-> action.v.api_reference,
             documentation |-> Join(doc_sections),
             chunks_retrieved |-> Len(doc_sections)]

InitDocs ==
    /\ action_id_arg \in ActionIds
    /\ query_arg \in QueryArgs
    /\ vectorstore \in SeqsUpTo(ChunkChoices, MaxChunks)
    /\ tool_result = <<>>
    /\ dpc = "start"
    /\ ParseIdle /\ TraceIdle /\ EvalIdle /\ CompareIdle /\ SaveIdle /\ RunIdle /\ ActionsIdle

\* retrieve_api_documentation.invoke({"action_id": ..., "query": ...})
RetrieveApiDocumentation ==
    /\ dpc = "start"
    /\ tool_result' = retrieve_api_documentation(action_id_arg, query_arg, vectorstore)
    /\ dpc' = "done"
    /\ UNCHANGED <<action_id_arg, query_arg, vectorstore>>
    /\ UNCHANGED <<pvars, tvars, evars, cvars, svars, rvars, avars>>

NextDocs == RetrieveApiDocumentation

SpecDocs == InitDocs /\ [][NextDocs]_vars

(***************************************************************************)
(* tools: get_available_actions, validate_action_id                        *)
(***************************************************************************)
\* longest query
MaxQueryLen == 2

\* the id, name and description of the actions of Catalog, in its order,
\* character by character
ActionTexts ==
    <<[id |-> <<"s", "l", "a", "c", "k", "_", "p", "o", "s", "t", "_", "m", "e",
              "s", "s", "a", "g", "e">>,
       name |-> <<"S", "e", "n", "d", " ", "S", "l", "a", "c", "k", " ", "M",
                 "e", "s", "s", "a", "g", "e">>,
       description |-> <<"P", "o", "s", "t", " ", "a", " ", "m", "e", "s", "s",
                        "a", "g", "e", " ", "t", "o", " ", "a", " ", "S", "l",
                        "a", "c", "k", " ", "c", "h", "a", "n", "n", "e", "l">>],
      [id |-> <<"g", "i", "t", "h", "u", "b", "_", "c", "r", "e", "a", "t", "e",
              "_", "i", "s", "s", "u", "e">>,
       name |-> <<"C", "r", "e", "a", "t", "e", " ", "G", "i", "t", "H", "u",
                 "b", " ", "I", "s", "s", "u", "e">>,
       description |-> <<"C", "r", "e", "a", "t", "e", " ", "a", "n", " ", "i",
                        "s", "s", "u", "e", " ", "i", "n", " ", "a", " ", "r",
                        "e", "p", "o", "s", "i", "t", "o", "r", "y">>],
      [id |-> <<"d", "i", "s", "c", "o", "r", "d", "_", "s", "e", "n", "d", "_",
              "m", "e", "s", "s", "a", "g", "e">>,
       name |-> <<"S", "e", "n", "d", " ", "D", "i", "s", "c", "o", "r", "d",
                 " ", "M", "e", "s", "s", "a", "g", "e">>,
       description |-> <<"S", "e", "n", "d", " ", "a", " ", "m", "e", "s", "s",
                        "a", "g", "e", " ", "t", "o", " ", "a", " ", "c", "h",
                        "a", "n", "n", "e", "l">>]>>

UpperToLower ==
    [A |-> "a", B |-> "b", C |-> "c", D |-> "d", E |-> "e", F |-> "f", G |-> "g", H |-> "h",
     I |-> "i", J |-> "j", K |-> "k", L |-> "l", M |-> "m", N |-> "n", O |-> "o", P |-> "p",
     Q |-> "q", R |-> "r", S |-> "s", T |-> "t", U |-> "u", V |-> "v", W |-> "w", X |-> "x",
     Y |-> "y", Z |-> "z"]

LowerChar(c) == IF c \in DOMAIN UpperToLower THEN UpperToLower[c] ELSE c

\* str.lower()
lower(text) == [i \in 1..Len(text) |-> LowerChar(text[i])]

\* the list comprehension of get_available_actions compared without .lower()
RECURSIVE MatchingActions_case_sensitive(_, _)
MatchingActions_case_sensitive(k, query) ==
    IF k > Len(Catalog) THEN <<>>
    ELSE (IF \/ Contains(ActionTexts[k].name, query)
             \/ Contains(ActionTexts[k].description, query)
             \/ Contains(ActionTexts[k].id, query)
          THEN <<Catalog[k]>> ELSE <<>>)
         \o MatchingActions_case_sensitive(k + 1, query)

\* [a for a in actions if query_lower in a["name"].lower() or query_lower in
\*  a["description"].lower() or query_lower in a["id"].lower()], from action k
RECURSIVE MatchingActions(_, _)
MatchingActions(k, query) ==
    IF k > Len(Catalog) THEN <<>>
    ELSE (IF \/ Contains(lower(ActionTexts[k].name), lower(query))
             \/ Contains(lower(ActionTexts[k].description), lower(query))
             \/ Contains(lower(ActionTexts[k].id), lower(query))
          THEN <<Catalog[k]>> ELSE <<>>)
         \o MatchingActions(k + 1, query)

\* get_available_actions(query): the dict handed to json.dumps
get_available_actions(query) ==
    LET actions == IF query.found /\ query.v # <<>> THEN MatchingActions(1, query.v)
                   ELSE Catalog
    IN IF Len(actions) = 0
       THEN [message |-> <<"No actions found matching '", query.v, "'">>,
             available_count |-> Len(Catalog),
             suggestion |-> "Try a broader search or call without a query to see all actions"]
       ELSE [total_actions |-> Len(actions), actions |-> actions]

\* validate_action_id(action_id): get_action_by_id(action_id) is not None
validate_action_id(action_id) == get_action_by_id(action_id).found

QueryAlphabet == {"s", "S", "l", "i", "x"}

Queries == {None} \cup {Some(q) : q \in SeqsUpTo(QueryAlphabet, MaxQueryLen)}

InitActions ==
    /\ actions_query \in Queries
    /\ actions_result = <<>>
    /\ gpc = "start"
    /\ checked_id \in ActionIds
    /\ id_valid = FALSE
    /\ vpc = "start"
    /\ ParseIdle /\ TraceIdle /\ EvalIdle /\ CompareIdle /\ SaveIdle /\ RunIdle /\ DocsIdle

\* get_available_actions.invoke({"query": ...})
GetAvailableActions ==
    /\ gpc = "start"
    /\ actions_result' = get_available_actions(actions_query)
    /\ gpc' = "done"
    /\ UNCHANGED <<actions_query, checked_id, id_valid, vpc>>
    /\ UNCHANGED <<pvars, tvars, evars, cvars, svars, rvars, dvars>>

\* validate_action_id(action_id)
ValidateActionId ==
    /\ vpc = "start"
    /\ id_valid' = validate_action_id(checked_id)
    /\ vpc' = "done"
    /\ UNCHANGED <<actions_query, actions_result, gpc, checked_id>>
    /\ UNCHANGED <<pvars, tvars, evars, cvars, svars, rvars, dvars>>

NextActions == GetAvailableActions \/ ValidateActionId

SpecActions == InitActions /\ [][NextActions]_vars

(***************************************************************************)
(* Claims about the response parser                                        *)
(***************************************************************************)
\* C1: for every raw text, _parse_response returns an AgentResponse and
\* never raises.
C1_NeverRaises == ppc = "done" => response.kind = "AgentResponse"

\* the round-trip cases: a text and the three values its document holds
WellFormedCases ==
    {[text |-> FencedDocument(pre, A, R, C, post), A |-> A, R |-> R, C |-> C] :
        pre \in Prose, A \in FieldValues, R \in FieldValues, C \in FieldValues, post \in Prose}

\* C8: for prose around a json-fenced block that holds the well-formed object
\* {"selected_action": A, "reasoning": R, "proposed_config": C}, the parser
\* returns exactly A, R and C.
C8_RoundTrip ==
    \A c \in WellFormedCases :
        (ppc = "done" /\ output = c.text) =>
            /\ response.kind = "AgentResponse"
            /\ response.selected_action = c.A
            /\ response.reasoning = c.R
            /\ response.proposed_config = c.C

\* the fallback cases: a text cut off after the complete selected_action
\* member, and the action a that member holds
TruncatedCases ==
    UNION {{[text |-> Take(Document(A, R, C), n), a |-> A] :
                n \in Len(<<"{">> \o JsonString(SelectedActionKey) \o <<":", SP>>
                          \o JsonString(A))..Len(Document(A, R, C))} :
              A \in {<<"a">>, <<"a", QUOTE, "b">>},
              R \in {<<"a">>, <<"a", NL>>}, C \in {<<"{", "}">>}}

\* C9: when the text holds a quoted field "selected_action": "<a>" with a
\* non-empty action a and the candidate fails to parse as JSON, the parser
\* returns selected_action = a and not "parse_error".
C9_FallbackAction ==
    \A c \in TruncatedCases :
        (ppc = "done" /\ output = c.text /\ ~JsonLoads(JsonCandidate(output)).ok) =>
            /\ response.kind = "AgentResponse"
            /\ response.selected_action = c.a
            /\ response.selected_action # ParseError

FailedToParse == <<"F", "a", "i", "l", "e", "d", " ", "t", "o", " ", "p", "a", "r", "s", "e">>

\* no field of the text is recoverable by field extraction
NothingRecoverable(text) ==
    \A key \in {SelectedActionKey, ReasoningKey, ProposedConfigKey} :
        OrElse(_extract_field(text, key), <<>>) = <<>>

\* the last n characters of s
Suffix(s, n) == SubSeq(s, Len(s) - n + 1, Len(s))

\* C10: when the candidate fails to parse and no field is recoverable, the
\* parser returns selected_action = "parse_error", proposed_config = "{}" and
\* a reasoning that starts with "Failed to parse" and ends with the raw-output
\* label followed by exactly the first 500 characters of the raw text.
C10_FullFailure ==
    (ppc = "done" /\ ~JsonLoads(JsonCandidate(output)).ok /\ NothingRecoverable(output)) =>
        LET quoted == RawOutputLabel \o Take(output, RawOutputLimit)
        IN /\ response.kind = "AgentResponse"
           /\ response.selected_action = ParseError
           /\ response.proposed_config = EmptyConfig
           /\ Take(response.reasoning, Len(FailedToParse)) = FailedToParse
           /\ Len(response.reasoning) >= Len(FailedToParse) + Len(quoted)
           /\ Suffix(response.reasoning, Len(quoted)) = quoted

\* a text longer than the limit has gone through the full-failure branch
C10_Witness ==
    /\ ppc = "done"
    /\ Len(output) > RawOutputLimit
    /\ ~JsonLoads(JsonCandidate(output)).ok /\ NothingRecoverable(output)
    /\ response.selected_action = ParseError

(***************************************************************************)
(* Claims about the trace reconstruction                                   *)
(***************************************************************************)
\* the tool id of message k was issued by no invocation of an earlier message
Unissued(k) ==
    /\ messages[k].type = "tool"
    /\ \A j \in 1..(k - 1) :
          messages[j].type = "ai" =>
              \A n \in 1..Len(messages[j].tool_calls) :
                  messages[j].tool_calls[n].id # messages[k].tool_call_id

\* number of tool-result events among the first k messages
ToolResultsUpTo(k) == Cardinality({j \in 1..k : messages[j].type = "tool"})

\* C2: a tool-result event whose correlation id no earlier invocation issued
\* does not abort the reconstruction: it is recorded in tool_calls with
\* tool_input = {} and the trace is returned.
C2_UnmatchedResultKept ==
    \A k \in 1..Len(messages) :
        Unissued(k) =>
            /\ tpc # "raised"
            /\ k < midx =>
                  /\ ToolResultsUpTo(k) <= Len(tool_calls_list)
                  /\ tool_calls_list[ToolResultsUpTo(k)].tool_input = {}
                  /\ tool_calls_list[ToolResultsUpTo(k)].tool_output =
                        Truncate(messages[k].content, ToolOutputLimit)

\* the arguments of the latest invocation before message k that issued the
\* tool id of message k
IssuedArgs(k) ==
    LET issuers == UNION {{<<j, n>> : n \in {n \in 1..Len(messages[j].tool_calls) :
                                       messages[j].tool_calls[n].id = messages[k].tool_call_id}} :
                             j \in {j \in 1..(k - 1) : messages[j].type = "ai"}}
        last == CHOOSE p \in issuers :
                    \A q \in issuers : q[1] < p[1] \/ (q[1] = p[1] /\ q[2] <= p[2])
    IN messages[last[1]].tool_calls[last[2]].args

\* C11: for every event list a trace is reconstructed whose tool_calls hold
\* exactly one record per tool-result event, in event order, matched or not;
\* the record of a matched result carries the arguments of its invocation.
C11_OneRecordPerResult ==
    /\ tpc # "raised"
    /\ Len(tool_calls_list) = ToolResultsUpTo(midx - 1)
    /\ \A k \in 1..(midx - 1) :
          messages[k].type = "tool" =>
              LET rec == tool_calls_list[ToolResultsUpTo(k)]
              IN /\ rec.tool_name = messages[k].name
                 /\ rec.tool_output = Truncate(messages[k].content, ToolOutputLimit)
                 /\ ~Unissued(k) => rec.tool_input = IssuedArgs(k)

\* number of steps the first k messages give rise to: one per final answer,
\* one per tool invocation, none for system, user and tool-result events
RECURSIVE StepsDue(_)
StepsDue(k) ==
    IF k <= 0 THEN 0
    ELSE StepsDue(k - 1) +
         (IF messages[k].type # "ai" THEN 0
          ELSE IF messages[k].content # <<>> /\ messages[k].tool_calls = <<>> THEN 1
          ELSE Len(messages[k].tool_calls))

\* C12: the i-th step has step_number = i: numbers start at 1 and grow by one
\* per recorded step, whatever tool results are interleaved; system and user
\* events give no step and use no number.
C12_StepNumbering ==
    tpc # "idle" =>
        /\ \A i \in 1..Len(steps) : steps[i].step_number = i
        /\ step_number = Len(steps) + 1
        /\ Len(steps) = StepsDue(midx - 1)

\* a returned trace in which a tool result lies between two steps
C12_Witness ==
    /\ tpc = "returned"
    /\ Len(messages) = 3 /\ messages[2].type = "tool"
    /\ Len(steps) = 2 /\ Len(tool_calls_list) = 1
    /\ steps[1].observation.found /\ steps[2].action = <<"Final Answer">>

(***************************************************************************)
(* Claims about the evaluation harness                                     *)
(***************************************************************************)
\* C3: an exception raised by the agent function on one scenario never
\* aborts run: run returns one result per scenario, and every scenario on
\* which the agent function returned has a complete result with error unset.
C3_ScenarioIsolation ==
    /\ epc # "raised"
    /\ epc = "returned" => Len(scenario_results) = Len(scenarios)
    /\ \A i \in 1..Len(scenario_results) :
          agent_fn[i].kind = "returns" =>
              /\ ~scenario_results[i].error.found
              /\ scenario_results[i].actual_action = SomeStr(agent_fn[i].selected_action)
              /\ scenario_results[i].reasoning = agent_fn[i].reasoning
              /\ scenario_results[i].proposed_config = agent_fn[i].proposed_config
              /\ scenario_results[i].latency_ms = agent_fn[i].latency

\* a run has returned in which the agent raised on one scenario and returned
\* on a later one
C3_Witness ==
    /\ epc = "returned"
    /\ \E i, j \in 1..Len(scenario_results) :
          i < j /\ agent_fn[i].kind = "raises" /\ agent_fn[j].kind = "returns"

\* C4: when the agent function raises, the result has error = str(exception),
\* latency_ms = 0 and the three boolean fields false; in every result, error
\* set implies latency_ms = 0 and the three booleans false.
C4_ErrorResult ==
    \A i \in 1..Len(scenario_results) :
        LET r == scenario_results[i]
        IN /\ agent_fn[i].kind = "raises" => r.error = SomeStr(agent_fn[i].message)
           /\ r.error.found =>
                 /\ r.latency_ms = 0
                 /\ ~r.action_correct /\ ~r.liquid_valid /\ ~r.renders_to_json

C4_Witness ==
    \E i \in 1..Len(scenario_results) :
        agent_fn[i].kind = "raises" /\ scenario_results[i].error.found

\* C5: validate_liquid_template is a three-state function of (compiles,
\* renders, rendered text parses as JSON): a compile or render failure gives
\* (false, false, None), a JSON rendering (true, true, rendered), any other
\* rendering (true, false, rendered); it never raises.
C5_ThreeState ==
    \A i \in 1..Len(scenario_results) :
        agent_fn[i].kind = "returns" =>
            LET r == scenario_results[i]
                rendered == TemplateRender(r.proposed_config, scenarios[i].context.variables)
                out == <<r.liquid_valid, r.renders_to_json, r.rendered_config>>
            IN /\ ~r.error.found
               /\ IF ~TemplateCompiles(r.proposed_config) \/ ~rendered.ok
                  THEN out = <<FALSE, FALSE, NoneStr>>
                  ELSE IF RenderedJsonParses(rendered.text)
                  THEN out = <<TRUE, TRUE, SomeStr(rendered.text)>>
                  ELSE out = <<TRUE, FALSE, SomeStr(rendered.text)>>

\* one run holds a template that failed and one that rendered to non-JSON text
C5_Witness ==
    /\ \E i \in 1..Len(scenario_results) :
          /\ scenario_results[i].liquid_valid /\ ~scenario_results[i].renders_to_json
          /\ scenario_results[i].rendered_config.found
    /\ \E i \in 1..Len(scenario_results) :
          /\ ~scenario_results[i].error.found /\ ~scenario_results[i].liquid_valid

\* indices of the results without error
SuccessfulIds == {i \in 1..Len(scenario_results) : ~scenario_results[i].error.found}

\* the value of the quotient q is 100 * count / total
IsPercent(q, count, total) == q.den # 0 /\ q.num * total = 100 * count * q.den

\* C6: action_accuracy, liquid_valid and renders_to_json are 100 x (results
\* without error with the flag true) / (results without error); error_rate is
\* 100 x (results with error) / (all results).
C6_MetricFormulas ==
    epc = "returned" =>
        /\ SuccessfulIds # {} =>
              /\ IsPercent(metrics.action_accuracy,
                           Cardinality({i \in SuccessfulIds : scenario_results[i].action_correct}),
                           Cardinality(SuccessfulIds))
              /\ IsPercent(metrics.liquid_valid,
                           Cardinality({i \in SuccessfulIds : scenario_results[i].liquid_valid}),
                           Cardinality(SuccessfulIds))
              /\ IsPercent(metrics.renders_to_json,
                           Cardinality({i \in SuccessfulIds : scenario_results[i].renders_to_json}),
                           Cardinality(SuccessfulIds))
        /\ IsPercent(metrics.error_rate,
                     Len(scenario_results) - Cardinality(SuccessfulIds),
                     Len(scenario_results))

\* a returned run with an errored scenario and a correct successful one
C6_Witness ==
    /\ epc = "returned"
    /\ \E i \in 1..Len(scenario_results) : scenario_results[i].error.found
    /\ \E i \in SuccessfulIds : scenario_results[i].action_correct

\* C7: the aggregation never raises a division error: with no successful
\* scenario the four success metrics are 0, and the number of scenarios run,
\* the denominator of error_rate, is never 0.
C7_NoDivisionError ==
    /\ epc # "raised"
    /\ Len(scenarios) > 0
    /\ (epc = "returned" /\ SuccessfulIds = {}) =>
          /\ metrics.action_accuracy.num = 0 /\ metrics.liquid_valid.num = 0
          /\ metrics.renders_to_json.num = 0 /\ metrics.avg_latency_ms.num = 0
          /\ metrics.error_rate.den = Len(scenario_results)

\* a harness built from an empty list has run with every scenario failing
C7_Witness ==
    /\ epc = "returned"
    /\ given_scenarios.found /\ given_scenarios.v = <<>>
    /\ SuccessfulIds = {}

\* C15: run invokes the agent function exactly once per scenario, in list
\* order, one call at a time; the details are in the same order with
\* details[i].scenario_id = i, and total_scenarios is the number of details.
C15_OneCallPerScenario ==
    epc # "idle" =>
        /\ Len(agent_calls) = Len(scenario_results)
        /\ Len(agent_calls) <= Len(scenarios)
        /\ \A k \in 1..Len(agent_calls) : agent_calls[k] = AgentArgs(scenarios[k])
        /\ \A k \in 1..Len(scenario_results) : scenario_results[k].scenario_id = k - 1
        /\ epc = "returned" =>
              /\ Len(agent_calls) = Len(scenarios)
              /\ Len(eval_results.details) = Len(scenarios)
              /\ eval_results.total_scenarios = Len(eval_results.details)
              /\ \A k \in 1..Len(eval_results.details) :
                    /\ eval_results.details[k].scenario_id = k - 1
                    /\ eval_results.details[k].request = scenarios[k].request

\* a run over two different scenarios has returned, the agent having raised
\* on the first
C15_Witness ==
    /\ epc = "returned"
    /\ Len(scenarios) = 2 /\ scenarios[1] # scenarios[2]
    /\ agent_fn[1].kind = "raises" /\ agent_fn[2].kind = "returns"
    /\ Len(agent_calls) = 2 /\ Len(eval_results.details) = 2

\* C18: when the agent function returns, the result holds its
\* selected_action, reasoning and proposed_config unchanged, action_correct is
\* true exactly when selected_action and expected_action are the same string,
\* and (liquid_valid, renders_to_json, rendered_config) is what the validator
\* gives for proposed_config and the scenario's context.
C18_ResultFromResponse ==
    \A i \in 1..Len(scenario_results) :
        agent_fn[i].kind = "returns" =>
            LET r == scenario_results[i]
                call == agent_fn[i]
            IN /\ r.actual_action = SomeStr(call.selected_action)
               /\ r.reasoning = call.reasoning
               /\ r.proposed_config = call.proposed_config
               /\ r.action_correct <=> (call.selected_action = scenarios[i].expected_action)
               /\ <<r.liquid_valid, r.renders_to_json, r.rendered_config>> =
                     validate_liquid_template(call.proposed_config, scenarios[i].context)

\* a result for an action that misses the expected one by case only, and a
\* result for the expected action itself
C18_Witness ==
    /\ \E i \in 1..Len(scenario_results) :
          /\ agent_fn[i].kind = "returns"
          /\ agent_fn[i].selected_action # scenarios[i].expected_action
          /\ Lower(agent_fn[i].selected_action) = scenarios[i].expected_action
          /\ ~scenario_results[i].action_correct
          /\ scenario_results[i].rendered_config.found
    /\ \E i \in 1..Len(scenario_results) : scenario_results[i].action_correct

\* the value the comparison takes for a metric of a result dict: the value
\* under "metrics", 0 when the metric or the metrics dict is missing
TakenAs(d, metric) ==
    IF "metrics" \in DOMAIN d /\ metric \in DOMAIN d["metrics"] THEN d["metrics"][metric] ELSE 0

\* C14: compare_results reports, for action_accuracy, liquid_valid,
\* renders_to_json and avg_latency_ms and not for error_rate, change = current
\* - baseline, improved = change > 0 for the first three and change < 0 for
\* avg_latency_ms; a zero change is never improved; a missing metric counts 0.
C14_CompareResults ==
    cpc = "done" =>
        /\ DOMAIN comparison.metric_changes =
              {"action_accuracy", "liquid_valid", "renders_to_json", "avg_latency_ms"}
        /\ \A metric \in DOMAIN comparison.metric_changes :
              LET e == comparison.metric_changes[metric]
                  b == TakenAs(baseline_dict, metric)
                  c == TakenAs(current_dict, metric)
              IN /\ e.baseline = b /\ e.current = c /\ e.change = c - b
                 /\ metric = "avg_latency_ms" => (e.improved <=> c < b)
                 /\ metric # "avg_latency_ms" => (e.improved <=> c > b)
                 /\ c = b => ~e.improved

\* a comparison with a metric missing from the baseline, an unchanged metric,
\* a latency that went down and an accuracy that went down
C14_Witness ==
    /\ cpc = "done"
    /\ "metrics" \in DOMAIN baseline_dict /\ "metrics" \in DOMAIN current_dict
    /\ "liquid_valid" \notin DOMAIN baseline_dict.metrics
    /\ comparison.metric_changes["liquid_valid"].improved
    /\ comparison.metric_changes["renders_to_json"].change = 0
    /\ comparison.metric_changes["renders_to_json"].baseline # 0
    /\ comparison.metric_changes["avg_latency_ms"].change < 0
    /\ comparison.metric_changes["avg_latency_ms"].improved
    /\ comparison.metric_changes["action_accuracy"].change < 0
    /\ "error_rate" \in DOMAIN current_dict.metrics

\* C17: every saved evaluation run has a file of its own, and no later run
\* changes it: after any sequence of runs and saves, the file written for
\* each run still holds that run's aggregate.
C17_OwnFilePerRun ==
    \A k \in 1..Len(save_log) :
        /\ save_log[k].filename \in DOMAIN results_dir
        /\ results_dir[save_log[k].filename] = <<save_log[k].aggregate>>

\* the saves after save k that went to the same filename
LaterSaves(k) ==
    {j \in (k + 1)..Len(save_log) : save_log[j].filename = save_log[k].filename}

\* C17 as amended: save_results replaces the file of the given name: each
\* result file holds exactly the aggregate of the latest save under its name,
\* and the file of a run holds that run's aggregate as long as no later save
\* went to the same name.
C17_LatestSaveKept ==
    /\ DOMAIN results_dir = {save_log[k].filename : k \in 1..Len(save_log)}
    /\ \A k \in 1..Len(save_log) :
          LaterSaves(k) = {} =>
              results_dir[save_log[k].filename] = <<save_log[k].aggregate>>

\* two runs were saved under one name and a third under another
C17_Witness ==
    /\ Len(save_log) = 3
    /\ save_log[1].filename = save_log[3].filename
    /\ save_log[1].filename # save_log[2].filename
    /\ save_log[1].aggregate # save_log[3].aggregate
    /\ results_dir[save_log[2].filename] = <<save_log[2].aggregate>>

(***************************************************************************)
(* Claims about IntegrationAgent.run                                       *)
(***************************************************************************)
\* C16: run attaches a trace to the response only when the caller asked for
\* tracing with verbose=True at construction; when the caller did not, the
\* response's trace is None.
C16_TraceOnlyOnRequest ==
    rpc = "returned" =>
        /\ run_response.trace.found => verbose_arg
        /\ ~verbose_arg => run_response.trace = NoTrace

\* C16 as amended: run attaches a trace only when tracing is on, by
\* verbose=True at construction or by AGENT_VERBOSE in the environment; when
\* neither holds, the response's trace is None.
C16_TraceOnlyWhenVerbose ==
    rpc = "returned" =>
        /\ run_response.trace.found => (verbose_arg \/ AGENT_VERBOSE)
        /\ ~(verbose_arg \/ AGENT_VERBOSE) => run_response.trace = NoTrace

\* a run without tracing has returned a response for a result that holds a
\* tool invocation and its result
C16_Witness ==
    /\ rpc = "returned"
    /\ ~verbose_arg /\ ~AGENT_VERBOSE
    /\ Len(final_messages) = 3
    /\ final_messages[1].tool_calls # <<>> /\ final_messages[2].type = "tool"
    /\ run_response.selected_action = <<"a">>
    /\ run_response.trace = NoTrace

ErrorAction == <<"e", "r", "r", "o", "r">>

FailedWord == <<"f", "a", "i", "l", "e", "d">>

\* C19: a failure of the model's response-generation step never leaves run:
\* when that step raises, run returns a response with selected_action =
\* "error" and a reasoning that mentions the failure.
C19_ErrorResponse ==
    (invoke_outcome # <<>> /\ invoke_outcome.kind = "raises") =>
        /\ rpc # "raised"
        /\ rpc # "invoke" =>
              /\ rpc = "returned"
              /\ run_response.selected_action = ErrorAction
              /\ \/ Contains(run_response.reasoning, FailedWord)
                 \/ Contains(run_response.reasoning, <<"F">> \o Tail(FailedWord))

(***************************************************************************)
(* Claims about the documentation tool                                     *)
(***************************************************************************)
CatalogIds == {Catalog[k].id : k \in 1..Len(Catalog)}

\* the chunks the search of the call returns: those of the action's
\* integration, all chunks for an action without integration
ChunksSearched ==
    SelectSeq(vectorstore,
              LAMBDA d : action_id_arg \in DOMAIN ACTION_TO_INTEGRATION =>
                             d.integration = ACTION_TO_INTEGRATION[action_id_arg])

\* C20: for an action id outside the catalog the tool returns an object with
\* "error"; for an id of the catalog it returns an object with
\* "documentation", "action" (bearing the requested id) and "api_reference",
\* whatever the document search returns.
C20_DocumentationKeys ==
    dpc = "done" =>
        IF action_id_arg \notin CatalogIds
        THEN "error" \in DOMAIN tool_result
        ELSE /\ {"documentation", "action", "api_reference"} \subseteq DOMAIN tool_result
             /\ tool_result.action.id = action_id_arg

\* C20 as amended: for an id outside the catalog the object holds "error";
\* for an id of the catalog it holds "documentation" and "action" (bearing
\* the requested id), and it holds "api_reference" exactly when the document
\* search returned at least one chunk.
C20_DocumentationResult ==
    dpc = "done" =>
        IF action_id_arg \notin CatalogIds
        THEN "error" \in DOMAIN tool_result
        ELSE /\ {"documentation", "action"} \subseteq DOMAIN tool_result
             /\ tool_result.action.id = action_id_arg
             /\ "api_reference" \in DOMAIN tool_result <=> Len(ChunksSearched) > 0

\* the tool has answered for a catalog action whose search found nothing
\* although the store holds chunks of another integration
C20_Witness ==
    /\ dpc = "done"
    /\ action_id_arg = "github_create_issue"
    /\ Len(vectorstore) > 0 /\ Len(ChunksSearched) = 0
    /\ DOMAIN tool_result = {"action", "documentation", "note"}

(***************************************************************************)
(* Claims about the catalog tools                                          *)
(***************************************************************************)
\* text contains q when case is disregarded
ContainsCI(text, q) ==
    \E i \in 1..(Len(text) - Len(q) + 1) :
        \A j \in 1..Len(q) : LowerChar(text[i + j - 1]) = LowerChar(q[j])

\* the actions, by position in the catalog, whose id, name or description
\* contains q
MatchedBy(q) ==
    {k \in 1..Len(Catalog) :
        \/ ContainsCI(ActionTexts[k].id, q)
        \/ ContainsCI(ActionTexts[k].name, q)
        \/ ContainsCI(ActionTexts[k].description, q)}

\* list holds exactly the catalog actions of the positions in K, in order
IsSelection(list, K) ==
    /\ Len(list) = Cardinality(K)
    /\ \A k \in K : list[Cardinality({j \in K : j <= k})] = Catalog[k]

RanExactly(l) ==
    /\ scenarios = l
    /\ eval_results.total_scenarios = Len(l)
    /\ epc = "returned" =>
          /\ agent_calls = [k \in 1..Len(l) |-> AgentArgs(l[k])]
          /\ Len(eval_results.details) = Len(l)

TaggedFences(t) == {i \in 1..Len(t) : OccursAt(t, JsonFence, i)}

Fences(t) == {i \in 1..Len(t) : OccursAt(t, Fence, i)}

Least(S) == CHOOSE i \in S : \A j \in S : i <= j

\* the text between a fence of length n at position i and the next fence,
\* the remainder of the text when no fence follows
BetweenFences(t, i, n) ==
    LET later == {j \in Fences(t) : j >= i + n}
    IN IF later = {} THEN From(t, i + n) ELSE SubSeq(t, i + n, Least(later) - 1)

\* line starts from which whitespace and then an opening brace follow
BraceLines(t) ==
    {i \in 1..Len(t) :
        /\ (i = 1 \/ t[i - 1] = NL)
        /\ \E j \in i..Len(t) : t[j] = "{" /\ \A k \in i..(j - 1) : t[k] \in Whitespace}

\* C23: the candidate is chosen by an ordered first-match chain: with a
\* json-tagged fence in the text, the text between the first such fence and
\* the next fence (the remainder when no fence follows), even when an
\* untagged fence occurs earlier; else with any fence, the same for the first
\* fence; else the remainder of the text from the first line start where an
\* opening brace follows optional whitespace. (The candidate is that text
\* without its surrounding whitespace.)
C23_CandidateChain ==
    ppc = "done" =>
        IF TaggedFences(output) # {}
        THEN json_str = Strip(BetweenFences(output, Least(TaggedFences(output)),
                                            Len(JsonFence)))
        ELSE IF Fences(output) # {}
        THEN json_str = Strip(BetweenFences(output, Least(Fences(output)), Len(Fence)))
        ELSE BraceLines(output) # {} =>
                json_str = Strip(From(output, Least(BraceLines(output))))

\* a parsed text in which an untagged fenced block precedes the json-tagged
\* one, and the candidate is the tagged block
C23_Witness ==
    /\ ppc = "done"
    /\ TaggedFences(output) # {}
    /\ Least(Fences(output)) < Least(TaggedFences(output))
    /\ json_str = <<"{", "}">>


\* the value the parsed object holds for a key, or the default of the field
ObjectValue(obj, key, default) ==
    IF \E i \in 1..Len(obj) : obj[i][1] = key
    THEN DictGet(obj, key, StrVal(default))
    ELSE StrVal(default)

\* C24: when the candidate parses as a JSON object, each of the three
\* response fields takes the object's value for its key when the key is
\* present, and otherwise its default "unknown", "No reasoning provided" or
\* "{}"; what field extraction would find in the text plays no part.
C24_ObjectFields ==
    (ppc = "done" /\ JsonLoads(json_str).ok /\ JsonLoads(json_str).val.t = "obj") =>
        LET obj == JsonLoads(json_str).val.v
        IN /\ response.kind = "AgentResponse"
           /\ StrVal(response.selected_action) = ObjectValue(obj, SelectedActionKey, Unknown)
           /\ StrVal(response.reasoning) = ObjectValue(obj, ReasoningKey, NoReasoning)
           /\ StrVal(response.proposed_config) = ObjectValue(obj, ProposedConfigKey, EmptyConfig)


\* the fallback cases of a reasoning value: a document with a plain action,
\* cut off after the complete reasoning member, and the value v that member
\* holds: with an escaped quote, with a newline
EscapedCases ==
    UNION {{[text |-> Take(Document(A, R, C), n), v |-> R] :
                n \in Len(<<"{">> \o JsonString(SelectedActionKey) \o <<":", SP>>
                          \o JsonString(A) \o <<",", SP>> \o JsonString(ReasoningKey)
                          \o <<":", SP>> \o JsonString(R))..(Len(Document(A, R, C)) - 1)} :
              A \in {<<"a">>}, R \in {<<"a", NL>>, <<"a", QUOTE, "b">>},
              C \in {<<"{", "}">>}}

\* C25: field extraction tolerates escaped quotes and newlines: for a field
\* written "reasoning": "<v>" whose string body holds escaped quotes or
\* newlines, the recovered value is the complete v up to the closing
\* unescaped quote, each escaped quote turned into a plain quote, and not a
\* value cut off at the first escaped quote.
C25_EscapedValue ==
    \A c \in EscapedCases :
        (ppc = "done" /\ output = c.text /\ ~JsonLoads(json_str).ok) =>
            /\ response.kind = "AgentResponse"
            /\ response.reasoning = c.v


\* the value field extraction recovers for a key: a missing and an empty
\* value are both not recovered
Recovered(text, key) == OrElse(_extract_field(text, key), <<>>)

\* the parse_error sentinel: reasoning is the failure description
IsSentinel(r) ==
    /\ r.kind = "AgentResponse"
    /\ r.selected_action = ParseError
    /\ Take(r.reasoning, Len(FailedToParse)) = FailedToParse
    /\ r.proposed_config = EmptyConfig

\* every recovered field of the text is kept in the response
RecoveredKept(text, r) ==
    /\ Recovered(text, SelectedActionKey) # <<>> =>
          r.selected_action = Recovered(text, SelectedActionKey)
    /\ Recovered(text, ReasoningKey) # <<>> => r.reasoning = Recovered(text, ReasoningKey)
    /\ Recovered(text, ProposedConfigKey) # <<>> =>
          r.proposed_config = Recovered(text, ProposedConfigKey)

\* C26: on parse failure the parser returns the parse_error
\* sentinel exactly when none of selected_action, reasoning and
\* proposed_config is recoverable by field extraction; whenever at least one
\* field is recoverable, the recovered value is kept in the response.
C26_SentinelIffNothing ==
    (ppc = "done" /\ ~JsonLoads(json_str).ok) =>
        /\ response.kind = "AgentResponse"
        /\ IsSentinel(response) <=> NothingRecoverable(output)
        /\ RecoveredKept(output, response)

\* selected_action is recoverable: found, not empty, not the sentinel's name
ActionRecoverable(text) ==
    Recovered(text, SelectedActionKey) \notin {<<>>, ParseError}

\* C26 as amended: on parse failure the parser returns the parse_error
\* sentinel exactly when selected_action is not recoverable by field
\* extraction, whatever is recoverable of reasoning and proposed_config;
\* whenever selected_action is recoverable, every recovered value is kept in
\* the response.
C26_SentinelIffNoAction ==
    (ppc = "done" /\ ~JsonLoads(json_str).ok) =>
        /\ response.kind = "AgentResponse"
        /\ IsSentinel(response) <=> ~ActionRecoverable(output)
        /\ ActionRecoverable(output) => RecoveredKept(output, response)

\* a failed parse of a text whose reasoning is recoverable and whose action
\* is not, answered with the sentinel
C26_Witness ==
    /\ ppc = "done" /\ ~JsonLoads(json_str).ok
    /\ ~ActionRecoverable(output)
    /\ Recovered(output, ReasoningKey) = <<"a">>
    /\ IsSentinel(response)

(***************************************************************************)
(* Claims about the steps of the trace                                     *)
(***************************************************************************)
\* what the steps of the first k messages come from, in order: a final
\* answer of message msg, or invocation n of message msg
RECURSIVE StepOrigins(_)
StepOrigins(k) ==
    IF k <= 0 THEN <<>>
    ELSE LET msg == messages[k]
             prev == StepOrigins(k - 1)
         IN IF msg.type # "ai" THEN prev
            ELSE IF msg.tool_calls # <<>>
            THEN prev \o [n \in 1..Len(msg.tool_calls) |->
                             [kind |-> "call", msg |-> k, n |-> n]]
            ELSE IF msg.content # <<>>
            THEN Append(prev, [kind |-> "final", msg |-> k, n |-> 0])
            ELSE prev

\* the invocation <<message, position>> that last issued the tool id of the
\* tool-result message k before it, <<0, 0>> when none did
LastIssuer(k) ==
    LET issuers == UNION {{<<j, n>> : n \in {n \in 1..Len(messages[j].tool_calls) :
                                       messages[j].tool_calls[n].id = messages[k].tool_call_id}} :
                             j \in {j \in 1..(k - 1) : messages[j].type = "ai"}}
    IN IF issuers = {} THEN <<0, 0>>
       ELSE CHOOSE p \in issuers :
                \A q \in issuers : q[1] < p[1] \/ (q[1] = p[1] /\ q[2] <= p[2])

\* the tool-result events among the first k messages that carry the
\* correlation id of the invocation o and follow it
ResultsOf(o, k) ==
    {r \in (o.msg + 1)..k : messages[r].type = "tool" /\ LastIssuer(r) = <<o.msg, o.n>>}

C28_FinalAnswerSteps ==
    tpc # "idle" =>
        LET origins == StepOrigins(midx - 1)
        IN /\ Len(steps) = Len(origins)
           /\ \A m \in 1..Len(origins) :
                 origins[m].kind = "final" =>
                     LET content == messages[origins[m].msg].content
                     IN /\ steps[m].thought = <<"Generating final response">>
                        /\ steps[m].action = <<"Final Answer">>
                        /\ ~steps[m].action_input.found
                        /\ steps[m].observation.found
                        /\ steps[m].observation.v =
                              IF Len(content) <= FinalAnswerLimit THEN content
                              ELSE SubSeq(content, 1, FinalAnswerLimit) \o <<".", ".", ".">>

\* a returned trace of a short answer, an assistant event with neither
\* content nor invocations, and an answer longer than the limit
C28_Witness ==
    /\ tpc = "returned"
    /\ Len(messages) = 3 /\ Len(steps) = 2
    /\ messages[2].type = "ai" /\ messages[2].content = <<>>
    /\ steps[1].observation.v = messages[1].content
    /\ Len(steps[2].observation.v) = FinalAnswerLimit + 3
    /\ Len(messages[3].content) > FinalAnswerLimit

\* C29: the correlation-id map is consumed by the matching result: once a
\* tool result has set the observation of a step, no later tool result
\* changes it, not even one that repeats the correlation id, and such a
\* repeated result is treated as unmatched (recorded with tool_input = {}).
C29_ResultConsumed ==
    tpc # "idle" =>
        LET origins == StepOrigins(midx - 1)
        IN \A m \in 1..Len(origins) :
              (origins[m].kind = "call" /\ ResultsOf(origins[m], midx - 1) # {}) =>
                  LET results == ResultsOf(origins[m], midx - 1)
                      first == Least(results)
                  IN /\ m <= Len(steps)
                     /\ steps[m].observation =
                           Some(Truncate(messages[first].content, ToolOutputLimit))
                     /\ \A r \in results \ {first} :
                           /\ ToolResultsUpTo(r) <= Len(tool_calls_list)
                           /\ tool_calls_list[ToolResultsUpTo(r)].tool_input = {}

(***************************************************************************)
(* Claims about the validation fields of a scenario result                 *)
(***************************************************************************)
\* C30: in every ScenarioResult of run_scenario, which carries the output of
\* validate_liquid_template, renders_to_json implies liquid_valid and
\* rendered_config is None exactly when liquid_valid is false; no result has
\* liquid_valid = false with renders_to_json = true.
C30_ValidationFields ==
    epc # "idle" =>
        /\ \A i \in 1..Len(scenario_results) :
              LET r == scenario_results[i]
              IN /\ r.renders_to_json => r.liquid_valid
                 /\ ~r.rendered_config.found <=> ~r.liquid_valid
                 /\ ~(~r.liquid_valid /\ r.renders_to_json)
        /\ \A i \in 1..Len(eval_results.details) :
              LET d == eval_results.details[i]
              IN /\ d.renders_to_json => d.liquid_valid
                 /\ ~d.rendered_config.found <=> ~d.liquid_valid

\* a returned run with a result whose template is valid Liquid that does not
\* render to JSON, and a result of a call that raised
C30_Witness ==
    /\ epc = "returned"
    /\ \E i \in 1..Len(scenario_results) :
          /\ scenario_results[i].liquid_valid /\ ~scenario_results[i].renders_to_json
          /\ scenario_results[i].rendered_config.found
    /\ \E i \in 1..Len(scenario_results) :
          /\ scenario_results[i].error.found
          /\ ~scenario_results[i].liquid_valid /\ ~scenario_results[i].rendered_config.found

====
